---- MODULE Spec2Model ----
(***************************************************************************)
(* fastcov: a parallel gcov wrapper.  Model of src/fastcov.py: the filter  *)
(* policy of processGcov, the distillation engine (distillReport and the   *)
(* functions it calls), the exclusion marker scanner (exclMarkerWorker)    *)
(* and the serializers (dumpToJson, dumpToLcovInfo).                       *)
(*                                                                         *)
(* Python strings are modelled as sequences of one-character strings, so   *)
(* that substring and prefix tests are computed, not assumed.              *)
(***************************************************************************)
EXTENDS Integers, Sequences, FiniteSets, TLC

VARIABLES
    \* ---- processGcovs / processGcov ----
    cwd,                    \* the compiler directory (args.cdirectory, absolute)
    gcov_filter_options,    \* [sources, include, exclude]
    gcov_files,             \* intermediate_json["files"] of one gcov output line
    files,                  \* the list processGcovs builds
    gcov_i,                 \* number of gcov_files already processed
    \* ---- distillReport ----
    report_raw,             \* intermediate_json_files, as distillReport sees it
    raw_before,             \* history: report_raw when processGcdas returned
    include_exceptional_branches,   \* args.xbranchcoverage
    report_json,            \* report_json["sources"]
    distill_i,              \* number of raw records already distilled
    \* ---- distillLine on one canonical source ----
    lines,                  \* sources[source_name]["lines"]
    branches,               \* sources[source_name]["branches"]
    line_history,           \* history: the line_raw objects distilled so far
    filtered_history,       \* history: line_raw["branches"] after line 327
    \* ---- exclMarkerWorker ----
    fastcov_sources,        \* fastcov_json["sources"]
    sources_before,         \* history: fastcov_sources before the scan
    source_text,            \* the lines getSourceLines returns, per source
    exclude_branches_sw,    \* args.exclude_branches_sw
    include_branches_sw,    \* args.include_branches_sw
    chunk,                  \* the worker's chunk of source paths
    worker,                 \* the worker's locals and position
    \* ---- serializers ----
    fastcov_json,           \* the Report handed to the serializer
    output,                 \* what the serializer wrote
    \* ---- main, processGcdas, gcovWorker, scanExclusionMarkers ----
    pc,                     \* the position of the main thread
    coverage_files,         \* the gcda files found
    jobs,                   \* args.jobs
    min_chunk_size,         \* args.minimum_chunk
    chunk_size,             \* the local chunk_size of the running fan-out phase
    gcov_threads,           \* the threads processGcdas started, with their locals
    intermediate_json_files,    \* the list all gcovWorkers append to
    GCOVS_TOTAL,            \* the global list of per-line totals
    GCOVS_SKIPPED,          \* the global list of per-line skipped counts
    scan_threads,           \* the threads scanExclusionMarkers started
    join_i                  \* number of threads the join loop has joined

filterVars  == <<cwd, gcov_filter_options, gcov_files, files, gcov_i>>
distillVars == <<report_raw, raw_before, include_exceptional_branches, report_json, distill_i>>
lineVars    == <<lines, branches, line_history, filtered_history>>
scanVars    == <<fastcov_sources, sources_before, source_text, exclude_branches_sw,
                 include_branches_sw, chunk, worker>>
dumpVars    == <<fastcov_json, output>>
mainVars    == <<pc, coverage_files, jobs, min_chunk_size, chunk_size, gcov_threads,
                 intermediate_json_files, GCOVS_TOTAL, GCOVS_SKIPPED, scan_threads, join_i>>
vars == <<filterVars, distillVars, lineVars, scanVars, dumpVars, mainVars>>

(***************************************************************************)
(* Generic helpers.                                                        *)
(***************************************************************************)
Max(a, b) == IF a >= b THEN a ELSE b

\* All sequences over S of length 0..n.
SeqsUpTo(S, n) == UNION { [1..k -> S] : k \in 0..n }

\* Python "ex in s" for strings.
IsSubstring(ex, s) ==
    \E k \in 0..(Len(s) - Len(ex)) : SubSeq(s, k + 1, k + Len(ex)) = ex

\* Python s.startswith(e).
StartsWith(s, e) == Len(e) <= Len(s) /\ SubSeq(s, 1, Len(e)) = e

\* Lexicographic order on sequences of integers (Python tuple / list order).
RECURSIVE SeqLess(_, _)
SeqLess(a, b) ==
    IF a = <<>> THEN b # <<>>
    ELSE IF b = <<>> THEN FALSE
    ELSE IF Head(a) # Head(b) THEN Head(a) < Head(b)
    ELSE SeqLess(Tail(a), Tail(b))

(***************************************************************************)
(* os.path.join and os.path.abspath (posixpath), for an absolute cwd.      *)
(***************************************************************************)
\* posixpath.join(a, b)
PathJoin(a, b) ==
    IF StartsWith(b, <<"/">>) THEN b
    ELSE IF a = <<>> \/ a[Len(a)] = "/" THEN a \o b
    ELSE a \o <<"/">> \o b

\* path.split("/")
RECURSIVE SplitSlash(_, _, _, _)
SplitSlash(s, k, cur, acc) ==
    IF k > Len(s) THEN Append(acc, cur)
    ELSE IF s[k] = "/" THEN SplitSlash(s, k + 1, <<>>, Append(acc, cur))
    ELSE SplitSlash(s, k + 1, Append(cur, s[k]), acc)

\* the component loop of posixpath.normpath
RECURSIVE NormComps(_, _, _, _)
NormComps(comps, k, initial_slashes, new_comps) ==
    IF k > Len(comps) THEN new_comps
    ELSE LET comp == comps[k] IN
         IF comp = <<>> \/ comp = <<".">> THEN
             NormComps(comps, k + 1, initial_slashes, new_comps)
         ELSE IF \/ comp # <<".", ".">>
                 \/ (initial_slashes = 0 /\ new_comps = <<>>)
                 \/ (new_comps # <<>> /\ new_comps[Len(new_comps)] = <<".", ".">>) THEN
             NormComps(comps, k + 1, initial_slashes, Append(new_comps, comp))
         ELSE IF new_comps # <<>> THEN
             NormComps(comps, k + 1, initial_slashes, SubSeq(new_comps, 1, Len(new_comps) - 1))
         ELSE NormComps(comps, k + 1, initial_slashes, new_comps)

\* "/".join(comps)
RECURSIVE JoinSlash(_)
JoinSlash(comps) ==
    IF comps = <<>> THEN <<>>
    ELSE IF Len(comps) = 1 THEN comps[1]
    ELSE comps[1] \o <<"/">> \o JoinSlash(Tail(comps))

\* posixpath.normpath
NormPath(path) ==
    LET initial_slashes ==
            IF ~StartsWith(path, <<"/">>) THEN 0
            ELSE IF StartsWith(path, <<"/", "/">>) /\ ~StartsWith(path, <<"/", "/", "/">>) THEN 2
            ELSE 1
        comps  == NormComps(SplitSlash(path, 1, <<>>, <<>>), 1, initial_slashes, <<>>)
        joined == [k \in 1..initial_slashes |-> "/"] \o JoinSlash(comps)
    IN  IF joined = <<>> THEN <<".">> ELSE joined

\* os.path.abspath(os.path.join(cwd, file)); the process's working directory
\* is only consulted for a relative result, which an absolute cwd never gives.
AbsPath(dir, file) == NormPath(PathJoin(dir, file))

(***************************************************************************)
(* processGcov / processGcovs: the filter policy.                          *)
(***************************************************************************)
\* line 128: gcov["file_abs"] = ...
WithFileAbs(dir, gcov) ==
    [key \in (DOMAIN gcov) \cup {"file_abs"} |->
        IF key = "file_abs" THEN AbsPath(dir, gcov.file) ELSE gcov[key]]

\* lines 138-142: the include loop appends once and breaks
RECURSIVE IncludeLoopNoBreak(_, _, _, _)
IncludeLoopNoBreak(include, k, gcov, fs) ==
    IF k > Len(include) THEN fs
    ELSE IF IsSubstring(include[k], gcov.file_abs)
         THEN IncludeLoopNoBreak(include, k + 1, gcov, Append(fs, gcov))
         ELSE IncludeLoopNoBreak(include, k + 1, gcov, fs)

RECURSIVE IncludeLoop(_, _, _, _)
IncludeLoop(include, k, gcov, fs) ==
    IF k > Len(include) THEN fs
    ELSE IF IsSubstring(include[k], gcov.file_abs) THEN Append(fs, gcov)
    ELSE IncludeLoop(include, k + 1, gcov, fs)

\* lines 145-149: return on the first exclude substring, else append
RECURSIVE ExcludeLoop(_, _, _, _)
ExcludeLoop(exclude, k, gcov, fs) ==
    IF k > Len(exclude) THEN Append(fs, gcov)
    ELSE IF IsSubstring(exclude[k], gcov.file_abs) THEN fs
    ELSE ExcludeLoop(exclude, k + 1, gcov, fs)

\* mutant: the include list is consulted before the explicit sources
processGcovIncludeFirst(dir, gcov_raw, fs, options) ==
    LET gcov == WithFileAbs(dir, gcov_raw) IN
    IF options.include # <<>> THEN IncludeLoop(options.include, 1, gcov, fs)
    ELSE IF options.sources # {} THEN
        IF gcov.file_abs \in options.sources THEN Append(fs, gcov) ELSE fs
    ELSE ExcludeLoop(options.exclude, 1, gcov, fs)

\* processGcov(cwd, gcov, files, gcov_filter_options): the new value of files
processGcov(dir, gcov_raw, fs, options) ==
    LET gcov == WithFileAbs(dir, gcov_raw) IN
    IF options.sources # {} THEN
        IF gcov.file_abs \in options.sources THEN Append(fs, gcov) ELSE fs
    ELSE IF options.include # <<>> THEN IncludeLoop(options.include, 1, gcov, fs)
    ELSE ExcludeLoop(options.exclude, 1, gcov, fs)

\* processGcovs(cwd, gcov_files, gcov_filter_options)
RECURSIVE processGcovsFrom(_, _, _, _, _)
processGcovsFrom(dir, gfiles, k, fs, options) ==
    IF k > Len(gfiles) THEN fs
    ELSE processGcovsFrom(dir, gfiles, k + 1, processGcov(dir, gfiles[k], fs, options), options)

processGcovs(dir, gfiles, options) == processGcovsFrom(dir, gfiles, 1, <<>>, options)

(***************************************************************************)
(* Python dicts are functions; d[k] = v on a possibly new key is Put.      *)
(***************************************************************************)
EmptyDict == <<>>

Put(d, k, v) == [x \in (DOMAIN d) \cup {k} |-> IF x = k THEN v ELSE d[x]]

Del(d, k) == [x \in (DOMAIN d) \ {k} |-> d[x]]

\* int(x) for the numbers gcov emits: gcov's counters are integral, written
\* either plainly or in scientific notation; int() keeps the numeric value and
\* only changes the type, so on the (integral) values of this model it returns
\* its argument.
PyInt(x) == x

(***************************************************************************)
(* distillFunction                                                         *)
(***************************************************************************)
\* mutant: a later sighting overwrites the count instead of adding to it
distillFunctionOverwrite(function_raw, functions) ==
    Put(functions, function_raw.name,
        [start_line |-> IF function_raw.name \in DOMAIN functions
                        THEN functions[function_raw.name].start_line
                        ELSE PyInt(function_raw.start_line),
         execution_count |-> PyInt(function_raw.execution_count)])

\* distillFunction(function_raw, functions): the new value of functions
distillFunction(function_raw, functions) ==
    LET function_name   == function_raw.name
        start_line      == PyInt(function_raw.start_line)
        execution_count == PyInt(function_raw.execution_count)
    IN  IF function_name \notin DOMAIN functions THEN
            Put(functions, function_name,
                [start_line |-> start_line, execution_count |-> execution_count])
        ELSE
            [functions EXCEPT ![function_name].execution_count = @ + execution_count]

(***************************************************************************)
(* filterExceptionalBranches                                               *)
(***************************************************************************)
emptyBranchSet(branch1, branch2) == branch1.count = 0 /\ branch2.count = 0

matchingBranchSet(branch1, branch2) == branch1.count = branch2.count

\* The loop of lines 298-315; i is the 1-based index of the pair's first branch.
RECURSIVE FilterLoop(_, _, _, _)
FilterLoop(bs, i, filtered_branches, exception_branch) ==
    IF i > Len(bs) THEN filtered_branches
    ELSE IF i + 1 > Len(bs) THEN Append(filtered_branches, bs[i])
    ELSE IF bs[i + 1].throw THEN FilterLoop(bs, i + 2, filtered_branches, TRUE)
    ELSE IF /\ exception_branch
            /\ emptyBranchSet(bs[i], bs[i + 1])
            /\ Len(filtered_branches) >= 2
            /\ matchingBranchSet(filtered_branches[Len(filtered_branches)],
                                 filtered_branches[Len(filtered_branches) - 1])
         THEN <<>>
    ELSE FilterLoop(bs, i + 2, Append(Append(filtered_branches, bs[i]), bs[i + 1]),
                    exception_branch)

\* mutant: only the flagged branch of an exception pair is dropped
RECURSIVE FilterLoopKeepFirst(_, _, _, _)
FilterLoopKeepFirst(bs, i, filtered_branches, exception_branch) ==
    IF i > Len(bs) THEN filtered_branches
    ELSE IF i + 1 > Len(bs) THEN Append(filtered_branches, bs[i])
    ELSE IF bs[i + 1].throw
         THEN FilterLoopKeepFirst(bs, i + 2, Append(filtered_branches, bs[i]), TRUE)
    ELSE IF /\ exception_branch
            /\ emptyBranchSet(bs[i], bs[i + 1])
            /\ Len(filtered_branches) >= 2
            /\ matchingBranchSet(filtered_branches[Len(filtered_branches)],
                                 filtered_branches[Len(filtered_branches) - 1])
         THEN <<>>
    ELSE FilterLoopKeepFirst(bs, i + 2, Append(Append(filtered_branches, bs[i]), bs[i + 1]),
                             exception_branch)

\* mutant: the initializer list noise is not filtered
RECURSIVE FilterLoopNoSuppression(_, _, _, _)
FilterLoopNoSuppression(bs, i, filtered_branches, exception_branch) ==
    IF i > Len(bs) THEN filtered_branches
    ELSE IF i + 1 > Len(bs) THEN Append(filtered_branches, bs[i])
    ELSE IF bs[i + 1].throw THEN FilterLoopNoSuppression(bs, i + 2, filtered_branches, TRUE)
    ELSE FilterLoopNoSuppression(bs, i + 2,
                                 Append(Append(filtered_branches, bs[i]), bs[i + 1]),
                                 exception_branch)

filterExceptionalBranchesNoSuppression(bs) == FilterLoopNoSuppression(bs, 1, <<>>, FALSE)

\* mutant: an unpaired trailing branch that is flagged is dropped like a pair
RECURSIVE FilterLoopDropTrailing(_, _, _, _)
FilterLoopDropTrailing(bs, i, filtered_branches, exception_branch) ==
    IF i > Len(bs) THEN filtered_branches
    ELSE IF i + 1 > Len(bs)
         THEN IF bs[i].throw THEN filtered_branches ELSE Append(filtered_branches, bs[i])
    ELSE IF bs[i + 1].throw THEN FilterLoopDropTrailing(bs, i + 2, filtered_branches, TRUE)
    ELSE IF /\ exception_branch
            /\ emptyBranchSet(bs[i], bs[i + 1])
            /\ Len(filtered_branches) >= 2
            /\ matchingBranchSet(filtered_branches[Len(filtered_branches)],
                                 filtered_branches[Len(filtered_branches) - 1])
         THEN <<>>
    ELSE FilterLoopDropTrailing(bs, i + 2, Append(Append(filtered_branches, bs[i]), bs[i + 1]),
                                exception_branch)

filterExceptionalBranchesDropTrailing(bs) == FilterLoopDropTrailing(bs, 1, <<>>, FALSE)

filterExceptionalBranchesKeepFirst(bs) == FilterLoopKeepFirst(bs, 1, <<>>, FALSE)

filterExceptionalBranches(bs) == FilterLoop(bs, 1, <<>>, FALSE)

(***************************************************************************)
(* distillLine                                                             *)
(***************************************************************************)
\* [0] * n
Zeros(n) == [k \in 1..n |-> 0]

\* mutant: the canonical list is not zero-extended; counts past its end are lost
BranchLoopBodyNoExtend(line_number, i, branch, glen, brs) ==
    LET b1   == IF line_number \notin DOMAIN brs
                THEN Put(brs, line_number, Zeros(glen)) ELSE brs
    IN  IF i <= Len(b1[line_number])
        THEN [b1 EXCEPT ![line_number][i] = @ + PyInt(branch.count)]
        ELSE b1

\* One iteration of the loop of lines 330-337 (i is 1-based here).
BranchLoopBody(line_number, i, branch, glen, brs) ==
    LET b1   == IF line_number \notin DOMAIN brs THEN Put(brs, line_number, <<>>) ELSE brs
        blen == Len(b1[line_number])
        b2   == IF blen < glen
                THEN [b1 EXCEPT ![line_number] = @ \o Zeros(glen - blen)]
                ELSE b1
    IN  [b2 EXCEPT ![line_number][i] = @ + PyInt(branch.count)]

RECURSIVE BranchLoop(_, _, _, _)
BranchLoop(line_number, bs, i, brs) ==
    IF i > Len(bs) THEN brs
    ELSE BranchLoop(line_number, bs, i + 1,
                    BranchLoopBody(line_number, i, bs[i], Len(bs), brs))

\* mutant: the raw line object is left alone and the unfiltered list accumulated
FilteredLineRawNoFilter(line_raw, include_exceptional) == line_raw

\* lines 325-327: line_raw as distillLine leaves it
FilteredLineRaw(line_raw, include_exceptional) ==
    IF ~include_exceptional
    THEN [line_raw EXCEPT !.branches = filterExceptionalBranches(line_raw.branches)]
    ELSE line_raw

\* lines 318-323
LineCounts(line_raw, lns) ==
    LET line_number == PyInt(line_raw.line_number)
        count       == PyInt(line_raw.count)
    IN  IF line_number \notin DOMAIN lns THEN Put(lns, line_number, count)
        ELSE [lns EXCEPT ![line_number] = @ + count]

\* distillLine(line_raw, lines, branches, include_exceptional_branches):
\* the new lines and branches maps, and line_raw as mutated by line 327
distillLine(line_raw, lns, brs, include_exceptional) ==
    LET after == FilteredLineRaw(line_raw, include_exceptional)
    IN  [lines    |-> LineCounts(line_raw, lns),
         branches |-> BranchLoop(PyInt(line_raw.line_number), after.branches, 1, brs),
         line_raw |-> after]

(***************************************************************************)
(* distillSource / distillReport                                           *)
(***************************************************************************)
RECURSIVE FunctionsLoop(_, _, _)
FunctionsLoop(fns_raw, k, functions) ==
    IF k > Len(fns_raw) THEN functions
    ELSE FunctionsLoop(fns_raw, k + 1, distillFunction(fns_raw[k], functions))

\* The loop of lines 351-352 over source_raw["lines"]; acc carries the source's
\* lines and branches maps and the (mutated) raw lines.
RECURSIVE LinesLoop(_, _, _, _)
LinesLoop(lines_raw, k, acc, include_exceptional) ==
    IF k > Len(lines_raw) THEN acc
    ELSE LET r == distillLine(lines_raw[k], acc.lines, acc.branches, include_exceptional)
         IN  LinesLoop(lines_raw, k + 1,
                       [lines |-> r.lines, branches |-> r.branches,
                        lines_raw |-> Append(acc.lines_raw, r.line_raw)],
                       include_exceptional)

\* distillSource(source_raw, sources, include_exceptional_branches):
\* the new sources map, and source_raw as the call leaves it
distillSource(source_raw, sources, include_exceptional) ==
    LET source_name == source_raw.file_abs
        s1 == IF source_name \notin DOMAIN sources
              THEN Put(sources, source_name,
                       [functions |-> EmptyDict, branches |-> EmptyDict, lines |-> EmptyDict])
              ELSE sources
        fns == FunctionsLoop(source_raw.functions, 1, s1[source_name].functions)
        ls  == LinesLoop(source_raw.lines, 1,
                         [lines |-> s1[source_name].lines,
                          branches |-> s1[source_name].branches,
                          lines_raw |-> <<>>],
                         include_exceptional)
    IN  [sources |-> [s1 EXCEPT ![source_name] =
                         [functions |-> fns, branches |-> ls.branches, lines |-> ls.lines]],
         source_raw |-> [source_raw EXCEPT !.lines = ls.lines_raw]]

\* distillReport(report_raw, include_exceptional_branches): report_json["sources"]
RECURSIVE distillReportFrom(_, _, _, _)
distillReportFrom(raw, k, sources, include_exceptional) ==
    IF k > Len(raw) THEN sources
    ELSE distillReportFrom(raw, k + 1,
                           distillSource(raw[k], sources, include_exceptional).sources,
                           include_exceptional)

distillReport(raw, include_exceptional) ==
    distillReportFrom(raw, 1, EmptyDict, include_exceptional)

(***************************************************************************)
(* Values the variables of the phases that a specification does not run    *)
(* keep throughout.                                                        *)
(***************************************************************************)
IdleFilter ==
    /\ cwd = <<"/">>
    /\ gcov_filter_options = [sources |-> {}, include |-> <<>>, exclude |-> <<>>]
    /\ gcov_files = <<>>
    /\ files = <<>>
    /\ gcov_i = 0

IdleDistill ==
    /\ report_raw = <<>>
    /\ raw_before = <<>>
    /\ include_exceptional_branches = FALSE
    /\ report_json = EmptyDict
    /\ distill_i = 0

IdleLine ==
    /\ lines = EmptyDict
    /\ branches = EmptyDict
    /\ line_history = <<>>
    /\ filtered_history = <<>>

IdleScan ==
    /\ fastcov_sources = EmptyDict
    /\ sources_before = EmptyDict
    /\ source_text = EmptyDict
    /\ exclude_branches_sw = <<>>
    /\ include_branches_sw = <<>>
    /\ chunk = <<>>
    /\ worker = [status |-> "done", k |-> 0, i |-> 0, start_line |-> 0, end_line |-> 0]

IdleDump ==
    /\ fastcov_json = EmptyDict
    /\ output = [format |-> "none", text |-> <<>>, document |-> EmptyDict]

IdleMain ==
    /\ pc = "done"
    /\ coverage_files = <<>>
    /\ jobs = 1
    /\ min_chunk_size = 1
    /\ chunk_size = 1
    /\ gcov_threads = <<>>
    /\ intermediate_json_files = <<>>
    /\ GCOVS_TOTAL = <<>>
    /\ GCOVS_SKIPPED = <<>>
    /\ scan_threads = <<>>
    /\ join_i = 0

(***************************************************************************)
(* Specification SpecFilter: processGcovs over the files of one gcov       *)
(* output line, one processGcov call per step.                             *)
(***************************************************************************)
MaxGcovs == 2

\* gcov's "file" values: relative, dotted, and absolute
GcovFileNames ==
    { <<"a">>, <<"b", "/", "a">>, <<".", "/", "a">>, <<".", ".", "/", "b">>, <<"/", "b">> }

CompilerDirs == { <<"/">>, <<"/", "a">> }

\* getGcovFilterOptions: "sources" is a set of absolute paths
SourcesOptions == SUBSET { <<"/", "a", "/", "a">>, <<"/", "b">> }

FilterSubstrings == { <<"a">>, <<"b", "/">> }

InitFilter ==
    /\ cwd \in CompilerDirs
    /\ gcov_filter_options \in [sources : SourcesOptions,
                                include : SeqsUpTo(FilterSubstrings, 2),
                                exclude : SeqsUpTo(FilterSubstrings, 2)]
    /\ gcov_files \in SeqsUpTo([file : GcovFileNames], MaxGcovs)
    /\ files = <<>>
    /\ gcov_i = 0

\* processGcovs, one iteration of its loop (lines 153-154)
ProcessGcov ==
    /\ gcov_i < Len(gcov_files)
    /\ files' = processGcov(cwd, gcov_files[gcov_i + 1], files, gcov_filter_options)
    /\ gcov_i' = gcov_i + 1
    /\ UNCHANGED <<cwd, gcov_filter_options, gcov_files>>
    /\ UNCHANGED <<distillVars, lineVars, scanVars, dumpVars, mainVars>>

NextFilter == ProcessGcov

InitSpecFilter == InitFilter /\ IdleDistill /\ IdleLine /\ IdleScan /\ IdleDump /\ IdleMain

SpecFilter == InitSpecFilter /\ [][NextFilter]_vars

(***************************************************************************)
(* C1: the filter policy.                                                  *)
(***************************************************************************)
\* The policy as the specification words it, on an absolute path.
Kept(options, path) ==
    IF options.sources # {} THEN path \in options.sources
    ELSE IF options.include # <<>> THEN
        \E k \in 1..Len(options.include) : IsSubstring(options.include[k], path)
    ELSE ~ \E k \in 1..Len(options.exclude) : IsSubstring(options.exclude[k], path)

KeptRecord(gcov) == Kept(gcov_filter_options, gcov.file_abs)

\* C1: after any number of processGcov calls, the result list holds exactly the
\* records seen so far that the strict-priority policy (allow-set, else include
\* list, else exclude list) keeps, each once, and none that it drops.
C1_FilterPolicy ==
    files = SelectSeq([k \in 1..gcov_i |-> WithFileAbs(cwd, gcov_files[k])], KeptRecord)

\* Two include substrings both occur in the first record's path, which is kept
\* once; the second record matches neither and is dropped.
C1_Witness ==
    /\ gcov_i = 2 /\ Len(gcov_files) = 2
    /\ gcov_filter_options.sources = {}
    /\ Len(gcov_filter_options.include) = 2
    /\ gcov_filter_options.include[1] # gcov_filter_options.include[2]
    /\ gcov_filter_options.exclude # <<>>
    /\ \A k \in 1..2 : IsSubstring(gcov_filter_options.include[k],
                                   AbsPath(cwd, gcov_files[1].file))
    /\ \A k \in 1..2 : ~IsSubstring(gcov_filter_options.include[k],
                                    AbsPath(cwd, gcov_files[2].file))
    /\ Len(files) = 1

(***************************************************************************)
(* Specification SpecDistill: distillReport over the collection that       *)
(* processGcdas returned, one distillSource call per step.                 *)
(***************************************************************************)
MaxRecords == 3

SourcePaths == { <<"/", "a">>, <<"/", "b">> }

Branch(c, t) == [count |-> c, throw |-> t]

\* Function lists of a raw record: a header function seen at two start lines,
\* and a record with two functions.
RawFunctionLists ==
    { <<>>,
      << [name |-> <<"f">>, start_line |-> 10, execution_count |-> 3] >>,
      << [name |-> <<"g">>, start_line |-> 10, execution_count |-> 0],
         [name |-> <<"f">>, start_line |-> 12, execution_count |-> 4] >> }

\* Line lists of a raw record: a line with an exception pair after a plain pair,
\* and the same line with four plain branches beside a line without branches.
RawLineLists ==
    { << [line_number |-> 5, count |-> 1,
          branches |-> << Branch(1, FALSE), Branch(0, FALSE),
                          Branch(1, FALSE), Branch(0, TRUE) >>] >>,
      << [line_number |-> 5, count |-> 2,
          branches |-> << Branch(0, FALSE), Branch(2, FALSE),
                          Branch(1, FALSE), Branch(1, FALSE) >>],
         [line_number |-> 6, count |-> 0, branches |-> <<>>] >> }

RawRecords == [file_abs : SourcePaths, functions : RawFunctionLists, lines : RawLineLists]

InitDistill ==
    /\ report_raw \in SeqsUpTo(RawRecords, MaxRecords)
    /\ raw_before = report_raw
    /\ include_exceptional_branches \in BOOLEAN
    /\ report_json = EmptyDict
    /\ distill_i = 0

\* distillReport, one iteration of its loop (lines 359-360); distillLine
\* assigns to the raw record it is given, so the collection changes too.
DistillSource ==
    /\ distill_i < Len(report_raw)
    /\ LET r == distillSource(report_raw[distill_i + 1], report_json,
                              include_exceptional_branches)
       IN  /\ report_json' = r.sources
           /\ report_raw' = [report_raw EXCEPT ![distill_i + 1] = r.source_raw]
    /\ distill_i' = distill_i + 1
    /\ UNCHANGED <<raw_before, include_exceptional_branches>>
    /\ UNCHANGED <<filterVars, lineVars, scanVars, dumpVars, mainVars>>

NextDistill == DistillSource

InitSpecDistill == InitDistill /\ IdleFilter /\ IdleLine /\ IdleScan /\ IdleDump /\ IdleMain

SpecDistill == InitSpecDistill /\ [][NextDistill]_vars

(***************************************************************************)
(* C2, C3, C8: distillation.                                               *)
(***************************************************************************)
RECURSIVE SumSeq(_)
SumSeq(s) == IF s = <<>> THEN 0 ELSE Head(s) + SumSeq(Tail(s))

\* The execution counts record rec reports for function name of source path.
FnCountsIn(rec, path, name) ==
    [k \in 1..Len(rec.functions) |->
        IF rec.file_abs = path /\ rec.functions[k].name = name
        THEN rec.functions[k].execution_count ELSE 0]

HasFunction(rec, path, name) ==
    /\ rec.file_abs = path
    /\ \E k \in 1..Len(rec.functions) : rec.functions[k].name = name

\* The start line record rec gives for its first entry of function name.
FirstStartLine(rec, name) ==
    LET k == CHOOSE j \in 1..Len(rec.functions) :
                 /\ rec.functions[j].name = name
                 /\ \A h \in 1..(j - 1) : rec.functions[h].name # name
    IN  rec.functions[k].start_line

FunctionNames == { <<"f">>, <<"g">> }

\* What C2 states of the first n records of collection raw and report sources.
FunctionTotals(raw, n, sources) ==
    \A path \in SourcePaths : \A name \in FunctionNames :
        LET seen == { k \in 1..n : HasFunction(raw[k], path, name) }
        IN  IF seen = {} THEN
                path \in DOMAIN sources => name \notin DOMAIN sources[path].functions
            ELSE
                /\ path \in DOMAIN sources
                /\ name \in DOMAIN sources[path].functions
                /\ sources[path].functions[name].execution_count =
                       SumSeq([k \in 1..n |-> SumSeq(FnCountsIn(raw[k], path, name))])
                /\ sources[path].functions[name].start_line =
                       FirstStartLine(raw[CHOOSE k \in seen : \A h \in seen : k <= h], name)

\* C2: after any number of records has been distilled, in whatever order the
\* collection holds them, each function's execution_count is the sum of the
\* counts of all records of that source that contain it (the first included),
\* and its start_line is that of the first such record distilled.
C2_FunctionSum == FunctionTotals(raw_before, distill_i, report_json)

\* Three records of one source all contain f; the first distilled gives start
\* line 12, a later one start line 10.
C2_Witness ==
    /\ distill_i = 3
    /\ \A k \in 1..3 : HasFunction(raw_before[k], <<"/", "a">>, <<"f">>)
    /\ FirstStartLine(raw_before[1], <<"f">>) = 12
    /\ FirstStartLine(raw_before[3], <<"f">>) = 10
    /\ report_json[<<"/", "a">>].functions[<<"f">>] =
           [start_line |-> 12, execution_count |-> 11]

\* The collection with the records at positions i and j exchanged.
Exchanged(raw, i, j) ==
    [k \in 1..Len(raw) |-> IF k = i THEN raw[j] ELSE IF k = j THEN raw[i] ELSE raw[k]]

\* The orderings of a collection that differ from it by one exchange.  Every
\* ordering is reached by a chain of exchanges, and the collections range over
\* all sequences of records, so what holds across each exchange holds across
\* every reordering.
Orderings(raw) ==
    { Exchanged(raw, p[1], p[2]) : p \in { q \in (1..Len(raw)) \X (1..Len(raw)) : q[1] < q[2] } }

\* A report with every function's start_line blanked.
WithoutStartLines(sources) ==
    [path \in DOMAIN sources |->
        [functions |-> [name \in DOMAIN sources[path].functions |->
                           sources[path].functions[name].execution_count],
         lines     |-> sources[path].lines,
         branches  |-> sources[path].branches]]

\* C3 as stated: every ordering of the collection distils to the same Report.
C3_OrderIndependent ==
    distill_i = Len(report_raw) =>
        \A other \in Orderings(raw_before) :
            distillReport(other, include_exceptional_branches) = report_json

\* C3 as amended: every ordering of the collection distils to the same line
\* counts, branch-count lists and function execution counts; a function's
\* start_line is the one of the first record of that ordering that contains it.
C3_OrderIndependentCounts ==
    distill_i = Len(report_raw) =>
        \A other \in Orderings(raw_before) :
            LET r == distillReport(other, include_exceptional_branches)
            IN  /\ WithoutStartLines(r) = WithoutStartLines(report_json)
                /\ FunctionTotals(other, Len(other), r)

\* Two records of one source give line 5 branch lists of different lengths
\* (2 after filtering, and 4), and f at different start lines.
C3_Witness ==
    /\ distill_i = Len(report_raw) /\ distill_i = 2
    /\ ~include_exceptional_branches
    /\ raw_before[1].file_abs = raw_before[2].file_abs
    /\ Len(raw_before[1].lines) = 1 /\ Len(raw_before[2].lines) = 2
    /\ Len(report_raw[1].lines[1].branches) = 2
    /\ HasFunction(raw_before[1], raw_before[1].file_abs, <<"f">>)
    /\ HasFunction(raw_before[2], raw_before[1].file_abs, <<"f">>)
    /\ FirstStartLine(raw_before[1], <<"f">>) # FirstStartLine(raw_before[2], <<"f">>)
    /\ report_json[raw_before[1].file_abs].branches[5] = <<1, 2, 1, 1>>

\* C8 as stated: distillation leaves every raw record of the collection as it
\* was when ingestion ended.
C8_RawUnchanged == report_raw = raw_before

(***************************************************************************)
(* Specifications SpecBranch and SpecLine: distillLine on the lines and    *)
(* branches maps of one canonical source.  SpecBranch distils one line     *)
(* with any branch list into an empty record; SpecLine merges several      *)
(* line objects one after the other.                                       *)
(***************************************************************************)
MaxBranches == 7

MaxMerges == 2

BranchEntries == { Branch(c, t) : c \in {0, 1}, t \in BOOLEAN }

\* The line objects SpecLine merges: two line numbers, branch lists of the
\* lengths of the specification's example (2 and 4), an odd one and none.
MergeBranchLists ==
    UNION { [1..n -> { Branch(1, FALSE), Branch(0, TRUE) }] : n \in {0, 1, 2, 4} }

MergeLinesRaw == [line_number : {5, 6}, count : {1}, branches : MergeBranchLists]

InitLine ==
    /\ lines = EmptyDict
    /\ branches = EmptyDict
    /\ line_history = <<>>
    /\ filtered_history = <<>>
    /\ include_exceptional_branches \in BOOLEAN
    /\ report_raw = <<>>
    /\ raw_before = <<>>
    /\ report_json = EmptyDict
    /\ distill_i = 0

\* One distillLine call (line 352) with line object line_raw.
DistillLineCall(line_raw) ==
    LET r == distillLine(line_raw, lines, branches, include_exceptional_branches)
    IN  /\ lines' = r.lines
        /\ branches' = r.branches
        /\ line_history' = Append(line_history, line_raw)
        /\ filtered_history' = Append(filtered_history, r.line_raw)
        /\ UNCHANGED distillVars
        /\ UNCHANGED <<filterVars, scanVars, dumpVars, mainVars>>

DistillOneLine ==
    /\ line_history = <<>>
    /\ \E bs \in SeqsUpTo(BranchEntries, MaxBranches) :
           DistillLineCall([line_number |-> 5, count |-> 1, branches |-> bs])

DistillLine ==
    /\ Len(line_history) < MaxMerges
    /\ \E line_raw \in MergeLinesRaw : DistillLineCall(line_raw)

NextBranch == DistillOneLine

NextLine == DistillLine

InitSpecLine == InitLine /\ IdleFilter /\ IdleScan /\ IdleDump /\ IdleMain

SpecBranch == InitSpecLine /\ [][NextBranch]_vars

SpecLine == InitSpecLine /\ [][NextLine]_vars

(***************************************************************************)
(* C4, C5: branch filtering and accumulation.                              *)
(***************************************************************************)
\* The canonical branch list of a line; a line without a key has none.
Canonical(line_number) ==
    IF line_number \in DOMAIN branches THEN branches[line_number] ELSE <<>>

\* The positions (1-based) of the branches of a list that belong to an adjacent
\* pair whose second element is flagged as an exception artifact.
ExceptionPositions(bs) ==
    { p \in 1..Len(bs) :
        \E k \in 1..Len(bs) : /\ k % 2 = 0
                              /\ p \in {k - 1, k}
                              /\ bs[k].throw }

\* The counts of a list at the positions outside a set, in order.
CountsOutside(bs, positions) ==
    LET Outside(p) == p \notin positions
        kept == SelectSeq([p \in 1..Len(bs) |-> p], Outside)
    IN  [k \in 1..Len(kept) |-> bs[kept[k]].count]

\* C4: without full exceptional-branch inclusion no branch of an exception
\* pair reaches the canonical list of the line (which holds the counts of the
\* other branches, or nothing); with it, the canonical list holds the count of
\* every incoming branch, both entries of every exception pair included.
C4_ExceptionPairs ==
    line_history # <<>> =>
        LET bs == line_history[1].branches IN
        IF include_exceptional_branches
        THEN Canonical(5) = [p \in 1..Len(bs) |-> bs[p].count]
        ELSE Canonical(5) \in { <<>>, CountsOutside(bs, ExceptionPositions(bs)) }

\* A taken plain pair, then an exception pair, then a trailing branch: the
\* canonical list holds the three counts outside the exception pair.
C4_Witness ==
    /\ ~include_exceptional_branches
    /\ line_history # <<>>
    /\ Len(line_history[1].branches) = 5
    /\ ExceptionPositions(line_history[1].branches) = {3, 4}
    /\ line_history[1].branches[3].count = 1
    /\ Canonical(5) = <<1, 0, 1>>

\* The indices of the line objects merged so far that are for line_number.
MergesOf(line_number) ==
    { k \in 1..Len(line_history) : line_history[k].line_number = line_number }

MaxOver(S) == IF S = {} THEN 0 ELSE CHOOSE m \in S : \A x \in S : x <= m

\* The canonical list of each line has the greatest incoming length and holds
\* at each index the sum of the incoming counts that have that index.
C5_PositionalSums ==
    \A line_number \in {5, 6} :
        LET K == MergesOf(line_number)
            longest == MaxOver({ Len(filtered_history[k].branches) : k \in K })
        IN  /\ Len(Canonical(line_number)) = longest
            /\ longest = 0 => line_number \notin DOMAIN branches
            /\ \A i \in 1..longest :
                   Canonical(line_number)[i] =
                       SumSeq([k \in 1..Len(filtered_history) |->
                                  IF k \in K /\ i <= Len(filtered_history[k].branches)
                                  THEN filtered_history[k].branches[i].count ELSE 0])

\* No merge removes a canonical list or makes it shorter.
C5_NeverShrinks ==
    \A line_number \in DOMAIN branches :
        /\ line_number \in DOMAIN branches'
        /\ Len(branches'[line_number]) >= Len(branches[line_number])

\* C5: branch counts accumulate positionally with zero-extension: after any
\* sequence of merges the canonical list of a line is as long as the longest
\* incoming (filtered) list and holds the index-wise sums, and no merge ever
\* shortens it.
C5_BranchAccumulation == []C5_PositionalSums /\ [][C5_NeverShrinks]_vars

\* Lists of length 2 and then 4 were merged into line 5: the result has length 4.
C5_Witness ==
    /\ Len(line_history) = 2
    /\ MergesOf(5) = {1, 2}
    /\ Len(filtered_history[1].branches) = 2
    /\ Len(filtered_history[2].branches) = 4
    /\ Canonical(5) = <<2, 1, 1, 1>>

\* Lists of length 4 and then 2 were merged into line 5.
C5_WitnessLongFirst ==
    /\ Len(line_history) = 2
    /\ MergesOf(5) = {1, 2}
    /\ Len(filtered_history[1].branches) = 4
    /\ Len(filtered_history[2].branches) = 2
    /\ Canonical(5) = <<2, 1, 1, 1>>

(***************************************************************************)
(* exclMarkerWorker                                                        *)
(***************************************************************************)
\* The marker keywords of lines 236-258.
LCOV_EXCL == <<"L", "C", "O", "V", "_", "E", "X", "C", "L">>

LCOV_EXCL_LINE == LCOV_EXCL \o <<"_", "L", "I", "N", "E">>

LCOV_EXCL_START == LCOV_EXCL \o <<"_", "S", "T", "A", "R", "T">>

LCOV_EXCL_STOP == LCOV_EXCL \o <<"_", "S", "T", "O", "P">>

LCOV_EXCL_BR_LINE == LCOV_EXCL \o <<"_", "B", "R", "_", "L", "I", "N", "E">>

\* str.lstrip(): leading whitespace removed
RECURSIVE LStrip(_)
LStrip(line) ==
    IF line # <<>> /\ Head(line) \in {" ", "\t", "\n"} THEN LStrip(Tail(line)) ELSE line

\* line 230: all(not line.lstrip().startswith(e) for e in include_branches_sw)
NoIncludePrefix(line, incl_sw) ==
    \A k \in 1..Len(incl_sw) : ~StartsWith(LStrip(line), incl_sw[k])

\* line 233: any(line.lstrip().startswith(e) for e in exclude_branches_sw)
SomeExcludePrefix(line, excl_sw) ==
    \E k \in 1..Len(excl_sw) : StartsWith(LStrip(line), excl_sw[k])

\* mutant: the range stops short of the line of the stop marker
DeleteRangeExclusive(d, start_line, end_line) ==
    [n \in { x \in DOMAIN d : ~(start_line <= x /\ x < end_line) } |-> d[n]]

\* lines 253-255: del d[line_num] for every key in [start_line, end_line]
DeleteRange(d, start_line, end_line) ==
    [n \in { x \in DOMAIN d : ~(start_line <= x /\ x <= end_line) } |-> d[n]]

\* "if i in d: del d[i]"
DelIfPresent(d, i) == IF i \in DOMAIN d THEN Del(d, i) ELSE d

\* Lines 229-234 for line i of a source with record rec: the record after the
\* prefix checks, and whether the second del raised KeyError (the first del
\* has then already removed the entry).
PrefixChecks(rec, i, line, excl_sw, incl_sw) ==
    IF i \notin DOMAIN rec.branches THEN [rec |-> rec, raised |-> FALSE]
    ELSE LET first  == incl_sw # <<>> /\ NoIncludePrefix(line, incl_sw)
             second == excl_sw # <<>> /\ SomeExcludePrefix(line, excl_sw)
             r1     == IF first THEN [rec EXCEPT !.branches = Del(@, i)] ELSE rec
         IN  IF ~second THEN [rec |-> r1, raised |-> FALSE]
             ELSE IF i \in DOMAIN r1.branches
                  THEN [rec |-> [r1 EXCEPT !.branches = Del(@, i)], raised |-> FALSE]
                  ELSE [rec |-> r1, raised |-> TRUE]

\* mutant: a range start does not replace a pending one (first start wins)
MarkerChecksFirstStartWins(rec, i, line, start_line, end_line) ==
    LET same == [rec |-> rec, start_line |-> start_line, end_line |-> end_line] IN
    IF ~IsSubstring(LCOV_EXCL, line) THEN same
    ELSE IF IsSubstring(LCOV_EXCL_LINE, line) THEN
        [same EXCEPT !.rec = [rec EXCEPT !.lines = DelIfPresent(@, i),
                                         !.branches = DelIfPresent(@, i)]]
    ELSE IF IsSubstring(LCOV_EXCL_START, line) THEN
        IF start_line = 0 THEN [same EXCEPT !.start_line = i] ELSE same
    ELSE IF IsSubstring(LCOV_EXCL_STOP, line) THEN
        IF start_line = 0 THEN [same EXCEPT !.end_line = 0]
        ELSE [rec |-> [rec EXCEPT !.lines = DeleteRange(@, start_line, i),
                                  !.branches = DeleteRange(@, start_line, i)],
              start_line |-> 0, end_line |-> 0]
    ELSE IF IsSubstring(LCOV_EXCL_BR_LINE, line) THEN
        [same EXCEPT !.rec = [rec EXCEPT !.branches = DelIfPresent(@, i)]]
    ELSE same

\* mutant: LCOV_EXCL_LINE marks the line as not executed instead of removing it
MarkerChecksZeroLine(rec, i, line, start_line, end_line) ==
    LET same == [rec |-> rec, start_line |-> start_line, end_line |-> end_line] IN
    IF ~IsSubstring(LCOV_EXCL, line) THEN same
    ELSE IF IsSubstring(LCOV_EXCL_LINE, line) THEN
        [same EXCEPT !.rec = [rec EXCEPT !.lines = IF i \in DOMAIN @
                                                  THEN [@ EXCEPT ![i] = 0] ELSE @,
                                         !.branches = DelIfPresent(@, i)]]
    ELSE IF IsSubstring(LCOV_EXCL_START, line) THEN
        [same EXCEPT !.start_line = i]
    ELSE IF IsSubstring(LCOV_EXCL_STOP, line) THEN
        IF start_line = 0 THEN [same EXCEPT !.end_line = 0]
        ELSE [rec |-> [rec EXCEPT !.lines = DeleteRange(@, start_line, i),
                                  !.branches = DeleteRange(@, start_line, i)],
              start_line |-> 0, end_line |-> 0]
    ELSE IF IsSubstring(LCOV_EXCL_BR_LINE, line) THEN
        [same EXCEPT !.rec = [rec EXCEPT !.branches = DelIfPresent(@, i)]]
    ELSE same

\* mutant: an exclusion also removes the functions that start on an excluded line
MarkerChecksDropFunctions(rec, i, line, start_line, end_line) ==
    LET same == [rec |-> rec, start_line |-> start_line, end_line |-> end_line]
        Without(fns, s, e) ==
            [name \in { x \in DOMAIN fns :
                           ~(s <= fns[x].start_line /\ fns[x].start_line <= e) } |-> fns[name]]
    IN
    IF ~IsSubstring(LCOV_EXCL, line) THEN same
    ELSE IF IsSubstring(LCOV_EXCL_LINE, line) THEN
        [same EXCEPT !.rec = [rec EXCEPT !.lines = DelIfPresent(@, i),
                                         !.branches = DelIfPresent(@, i),
                                         !.functions = Without(@, i, i)]]
    ELSE IF IsSubstring(LCOV_EXCL_START, line) THEN
        [same EXCEPT !.start_line = i]
    ELSE IF IsSubstring(LCOV_EXCL_STOP, line) THEN
        IF start_line = 0 THEN [same EXCEPT !.end_line = 0]
        ELSE [rec |-> [rec EXCEPT !.lines = DeleteRange(@, start_line, i),
                                  !.branches = DeleteRange(@, start_line, i),
                                  !.functions = Without(@, start_line, i)],
              start_line |-> 0, end_line |-> 0]
    ELSE IF IsSubstring(LCOV_EXCL_BR_LINE, line) THEN
        [same EXCEPT !.rec = [rec EXCEPT !.branches = DelIfPresent(@, i)]]
    ELSE same

\* mutant: LCOV_EXCL_LINE removes the line entry and leaves its branch entry
MarkerChecksLinesOnly(rec, i, line, start_line, end_line) ==
    LET same == [rec |-> rec, start_line |-> start_line, end_line |-> end_line] IN
    IF ~IsSubstring(LCOV_EXCL, line) THEN same
    ELSE IF IsSubstring(LCOV_EXCL_LINE, line) THEN
        [same EXCEPT !.rec = [rec EXCEPT !.lines = DelIfPresent(@, i)]]
    ELSE IF IsSubstring(LCOV_EXCL_START, line) THEN
        [same EXCEPT !.start_line = i]
    ELSE IF IsSubstring(LCOV_EXCL_STOP, line) THEN
        IF start_line = 0 THEN [same EXCEPT !.end_line = 0]
        ELSE [rec |-> [rec EXCEPT !.lines = DeleteRange(@, start_line, i),
                                  !.branches = DeleteRange(@, start_line, i)],
              start_line |-> 0, end_line |-> 0]
    ELSE IF IsSubstring(LCOV_EXCL_BR_LINE, line) THEN
        [same EXCEPT !.rec = [rec EXCEPT !.branches = DelIfPresent(@, i)]]
    ELSE same

\* Lines 236-260 for line i: the record and the pending range after the line.
MarkerChecks(rec, i, line, start_line, end_line) ==
    LET same == [rec |-> rec, start_line |-> start_line, end_line |-> end_line] IN
    IF ~IsSubstring(LCOV_EXCL, line) THEN same
    ELSE IF IsSubstring(LCOV_EXCL_LINE, line) THEN
        [same EXCEPT !.rec = [rec EXCEPT !.lines = DelIfPresent(@, i),
                                         !.branches = DelIfPresent(@, i)]]
    ELSE IF IsSubstring(LCOV_EXCL_START, line) THEN
        [same EXCEPT !.start_line = i]
    ELSE IF IsSubstring(LCOV_EXCL_STOP, line) THEN
        IF start_line = 0 THEN [same EXCEPT !.end_line = 0]
        ELSE [rec |-> [rec EXCEPT !.lines = DeleteRange(@, start_line, i),
                                  !.branches = DeleteRange(@, start_line, i)],
              start_line |-> 0, end_line |-> 0]
    ELSE IF IsSubstring(LCOV_EXCL_BR_LINE, line) THEN
        [same EXCEPT !.rec = [rec EXCEPT !.branches = DelIfPresent(@, i)]]
    ELSE same

\* One iteration of the loop of line 228: the body for line i with text line.
exclLine(rec, i, line, start_line, end_line, excl_sw, incl_sw) ==
    LET a == PrefixChecks(rec, i, line, excl_sw, incl_sw) IN
    IF a.raised
    THEN [rec |-> a.rec, start_line |-> start_line, end_line |-> end_line, raised |-> TRUE]
    ELSE LET b == MarkerChecks(a.rec, i, line, start_line, end_line)
         IN  [rec |-> b.rec, start_line |-> b.start_line, end_line |-> b.end_line,
              raised |-> FALSE]

(***************************************************************************)
(* Specification SpecScan: one exclMarkerWorker over its chunk, one source *)
(* line per step.                                                          *)
(***************************************************************************)
MaxSourceLines == 4

\* Source lines as getSourceLines returns them (each ends with a newline).
SourceLineTexts ==
    { <<"i", "f", "\n">>,
      <<" ", "a", "s", "\n">>,
      <<"x", " ">> \o LCOV_EXCL_LINE \o <<"\n">>,
      LCOV_EXCL_START \o <<"\n">>,
      LCOV_EXCL_STOP \o <<"\n">>,
      <<"i", "f", " ">> \o LCOV_EXCL_BR_LINE \o <<"\n">> }

SourceTexts == SeqsUpTo(SourceLineTexts, MaxSourceLines)

ScanChunk == << <<"/", "a">>, <<"/", "b">> >>

\* The text of the second source of the chunk: a line that matches the exclude
\* prefix, and a single-line exclusion.
SecondSourceText ==
    << <<" ", "a", "s", "\n">>, <<"x", " ">> \o LCOV_EXCL_LINE \o <<"\n">> >>

\* Canonical records as distillation leaves them, with entries up to one line
\* past the longest text: one with a line and a branch entry on every line, and
\* one with no entry on line 2 and branch entries on the odd lines only.
LineNumbers == 1..(MaxSourceLines + 1)

ScanFunctions == [name \in { <<"f">> } |-> [start_line |-> 2, execution_count |-> 1]]

ScanRecords ==
    { [functions |-> ScanFunctions,
       lines     |-> [n \in LineNumbers |-> n],
       branches  |-> [n \in LineNumbers |-> <<n, 0>>]],
      [functions |-> ScanFunctions,
       lines     |-> [n \in LineNumbers \ {2} |-> n],
       branches  |-> [n \in { x \in LineNumbers : x % 2 = 1 } |-> <<n, 0>>]] }

IncludePrefixLists == { <<>>, << <<"i", "f">> >> }

ExcludePrefixLists == { <<>>, << <<"a", "s">> >> }

InitScan ==
    /\ chunk = ScanChunk
    /\ \E text \in SourceTexts :
           source_text = [path \in SourcePaths |->
                             IF path = ScanChunk[1] THEN text ELSE SecondSourceText]
    /\ \E rec \in ScanRecords : fastcov_sources = [path \in SourcePaths |-> rec]
    /\ sources_before = fastcov_sources
    /\ exclude_branches_sw \in ExcludePrefixLists
    /\ include_branches_sw \in IncludePrefixLists
    /\ worker = [status |-> "running", k |-> 0, i |-> 0, start_line |-> 0, end_line |-> 0]

\* The worker is between two sources of its chunk.
BetweenSources ==
    IF worker.k = 0 THEN TRUE ELSE worker.i = Len(source_text[chunk[worker.k]])

\* lines 225-228: the next source of the chunk is taken and its text read
OpenSource ==
    /\ worker.status = "running"
    /\ BetweenSources
    /\ worker.k < Len(chunk)
    /\ worker' = [worker EXCEPT !.k = @ + 1, !.i = 0, !.start_line = 0, !.end_line = 0]
    /\ UNCHANGED <<fastcov_sources, sources_before, source_text, exclude_branches_sw,
                   include_branches_sw, chunk>>
    /\ UNCHANGED <<filterVars, distillVars, lineVars, dumpVars, mainVars>>

\* lines 228-260: the loop body for the next line of the current source; a
\* KeyError ends the thread where it is raised
ScanLine ==
    /\ worker.status = "running"
    /\ worker.k >= 1
    /\ worker.i < Len(source_text[chunk[worker.k]])
    /\ LET source == chunk[worker.k]
           i == worker.i + 1
           r == exclLine(fastcov_sources[source], i, source_text[source][i],
                         worker.start_line, worker.end_line,
                         exclude_branches_sw, include_branches_sw)
       IN  /\ fastcov_sources' = [fastcov_sources EXCEPT ![source] = r.rec]
           /\ worker' = IF r.raised
                        THEN [worker EXCEPT !.status = "failed"]
                        ELSE [worker EXCEPT !.i = i, !.start_line = r.start_line,
                                            !.end_line = r.end_line]
    /\ UNCHANGED <<sources_before, source_text, exclude_branches_sw,
                   include_branches_sw, chunk>>
    /\ UNCHANGED <<filterVars, distillVars, lineVars, dumpVars, mainVars>>

\* the loop of line 225 is exhausted and the worker returns
WorkerReturn ==
    /\ worker.status = "running"
    /\ BetweenSources
    /\ worker.k = Len(chunk)
    /\ worker' = [worker EXCEPT !.status = "done"]
    /\ UNCHANGED <<fastcov_sources, sources_before, source_text, exclude_branches_sw,
                   include_branches_sw, chunk>>
    /\ UNCHANGED <<filterVars, distillVars, lineVars, dumpVars, mainVars>>

NextScan == OpenSource \/ ScanLine \/ WorkerReturn

InitSpecScan == InitScan /\ IdleFilter /\ IdleDistill /\ IdleLine /\ IdleDump /\ IdleMain

SpecScan == InitSpecScan /\ [][NextScan]_vars

(***************************************************************************)
(* C6, C7: the exclusion marker scanner.                                   *)
(***************************************************************************)
\* The numbers of the lines of a text that contain a keyword.
LinesWith(text, keyword) == { n \in 1..Len(text) : IsSubstring(keyword, text[n]) }

\* The text has one range-start marker at line s, one range-stop marker at the
\* later line e, and no other marker.
OneRange(text, s, e) ==
    /\ LinesWith(text, LCOV_EXCL_START) = {s}
    /\ LinesWith(text, LCOV_EXCL_STOP) = {e}
    /\ s < e
    /\ LinesWith(text, LCOV_EXCL) = {s, e}

\* The worker has scanned every line of the k-th source of its chunk.
Scanned(k) ==
    \/ worker.k > k
    \/ worker.k = k /\ worker.i = Len(source_text[chunk[k]])

\* C6: for a source with one range-start marker at line s and one range-stop
\* marker at a later line e, no other marker and no prefix filter, once the
\* scanner has finished the source its line and branch maps hold no entry
\* numbered in [s, e], and hold every other entry they held before the scan.
C6_RangeExclusion ==
    \A k \in 1..Len(chunk) :
        ( /\ Scanned(k)
          /\ include_branches_sw = <<>>
          /\ exclude_branches_sw = <<>> )
        => LET source == chunk[k]
               text   == source_text[source]
               before == sources_before[source]
               after  == fastcov_sources[source]
           IN  \A s \in LinesWith(text, LCOV_EXCL_START) :
               \A e \in LinesWith(text, LCOV_EXCL_STOP) :
                   OneRange(text, s, e)
                   => /\ DOMAIN after.lines = { n \in DOMAIN before.lines : n < s \/ n > e }
                      /\ DOMAIN after.branches =
                             { n \in DOMAIN before.branches : n < s \/ n > e }
                      /\ \A n \in DOMAIN after.lines : after.lines[n] = before.lines[n]
                      /\ \A n \in DOMAIN after.branches :
                             after.branches[n] = before.branches[n]

\* The first source has entries on lines 1..5, a range start at line 2 and a
\* range stop at line 4: after the scan the entries of lines 1 and 5 are left.
C6_Witness ==
    /\ worker.status = "done"
    /\ include_branches_sw = <<>> /\ exclude_branches_sw = <<>>
    /\ OneRange(source_text[chunk[1]], 2, 4)
    /\ DOMAIN sources_before[chunk[1]].branches = 1..5
    /\ DOMAIN fastcov_sources[chunk[1]].lines = {1, 5}
    /\ DOMAIN fastcov_sources[chunk[1]].branches = {1, 5}

\* The worker has passed line n of the k-th source of its chunk.
Passed(k, n) ==
    \/ worker.k > k
    \/ worker.k = k /\ worker.i >= n

\* C7 as stated: on every line that had a branch entry, the entry is gone once
\* the line is processed if the line starts with no include prefix (list
\* non-empty) or with some exclude prefix (list non-empty), also when both hold;
\* and the worker never fails, so it goes on to the remaining lines and sources.
C7_PrefixChecksIndependent ==
    /\ worker.status # "failed"
    /\ \A k \in 1..Len(chunk) :
           LET source == chunk[k]
               text   == source_text[source]
           IN  \A n \in 1..Len(text) :
                   ( /\ Passed(k, n)
                     /\ n \in DOMAIN sources_before[source].branches
                     /\ \/ /\ include_branches_sw # <<>>
                           /\ NoIncludePrefix(text[n], include_branches_sw)
                        \/ /\ exclude_branches_sw # <<>>
                           /\ SomeExcludePrefix(text[n], exclude_branches_sw) )
                   => n \notin DOMAIN fastcov_sources[source].branches

(***************************************************************************)
(* Serializers: dumpToLcovInfo, dumpBranchCoverageToLcovInfo, dumpToJson.  *)
(* A written file is the sequence of its lines.                            *)
(***************************************************************************)
DecimalDigits == <<"0", "1", "2", "3", "4", "5", "6", "7", "8", "9">>

\* "{}".format(n) and str(n) for a non-negative integer
RECURSIVE Str(_)
Str(n) ==
    IF n < 10 THEN << DecimalDigits[n + 1] >>
    ELSE Str(n \div 10) \o << DecimalDigits[(n % 10) + 1] >>

\* ord(c) for the characters of the names and paths of this model
Ord(c) ==
    CASE c = "/" -> 47
      [] c = "_" -> 95
      [] c = "a" -> 97
      [] c = "b" -> 98
      [] c = "f" -> 102
      [] c = "g" -> 103
      [] c = "h" -> 104

\* Python's order on strings: lexicographic by code point
StrLess(a, b) == SeqLess([k \in 1..Len(a) |-> Ord(a[k])], [k \in 1..Len(b) |-> Ord(b[k])])

\* Python's order on (int, str) tuples
IntStrLess(a, b) == a[1] < b[1] \/ (a[1] = b[1] /\ StrLess(a[2], b[2]))

\* sorted() of a list of distinct (int, str) tuples
RECURSIVE SortIntStr(_)
SortIntStr(S) ==
    IF S = {} THEN <<>>
    ELSE LET m == CHOOSE x \in S : \A y \in S \ {x} : IntStrLess(x, y)
         IN  <<m>> \o SortIntStr(S \ {m})

\* sorted() of a list of distinct tuples of integers
RECURSIVE SortInts(_)
SortInts(S) ==
    IF S = {} THEN <<>>
    ELSE LET m == CHOOSE x \in S : \A y \in S \ {x} : SeqLess(x, y)
         IN  <<m>> \o SortInts(S \ {m})

\* sorted(sources.keys())
RECURSIVE SortStrs(_)
SortStrs(S) ==
    IF S = {} THEN <<>>
    ELSE LET m == CHOOSE x \in S : \A y \in S \ {x} : StrLess(x, y)
         IN  <<m>> \o SortStrs(S \ {m})

RECURSIVE Concat(_)
Concat(seqs) == IF seqs = <<>> THEN <<>> ELSE Head(seqs) \o Concat(Tail(seqs))

\* lines 189-190: "FN:{},{}\n" for the sorted (start_line, function) tuples
FnLines(functions) ==
    LET fn == SortIntStr({ <<functions[f].start_line, f>> : f \in DOMAIN functions })
    IN  [k \in 1..Len(fn) |-> <<"F", "N", ":">> \o Str(fn[k][1]) \o <<",">> \o fn[k][2]]

\* mutant: FNDA is written in the order of FN (by start line)
FndaLinesInFnOrder(functions) ==
    LET fn == SortIntStr({ <<functions[f].start_line, f>> : f \in DOMAIN functions })
    IN  [k \in 1..Len(fn) |->
            <<"F", "N", "D", "A", ":">> \o Str(functions[fn[k][2]].execution_count)
                \o <<",">> \o fn[k][2]]

\* lines 191-192: "FNDA:{},{}\n" for the sorted (execution_count, function) tuples
FndaLines(functions) ==
    LET fnda == SortIntStr({ <<functions[f].execution_count, f>> : f \in DOMAIN functions })
    IN  [k \in 1..Len(fnda) |->
            <<"F", "N", "D", "A", ":">> \o Str(fnda[k][1]) \o <<",">> \o fnda[k][2]]

\* lines 181-194: the function section of one source
FunctionSection(functions) ==
    LET fn_miss == Cardinality({ f \in DOMAIN functions : functions[f].execution_count = 0 })
        found   == Cardinality(DOMAIN functions)
    IN  FnLines(functions) \o FndaLines(functions)
        \o << <<"F", "N", "F", ":">> \o Str(found),
              <<"F", "N", "H", ":">> \o Str(found - fn_miss) >>

\* mutant: the block of a branch is its own index, not the index of its pair
dumpBranchCoverageToLcovInfoIndexBlock(brs) ==
    LET brda == SortInts(UNION { { <<line_num, i - 1, i - 1, brs[line_num][i]>> :
                                      i \in 1..Len(brs[line_num]) } : line_num \in DOMAIN brs })
        branch_found == Len(brda)
        branch_miss  == Cardinality({ k \in 1..Len(brda) : brda[k][4] = 0 })
    IN  [k \in 1..Len(brda) |->
            <<"B", "R", "D", "A", ":">> \o Str(brda[k][1]) \o <<",">> \o Str(brda[k][2])
                \o <<",">> \o Str(brda[k][3]) \o <<",">> \o Str(brda[k][4])]
        \o << <<"B", "R", "F", ":">> \o Str(branch_found),
              <<"B", "R", "H", ":">> \o Str(branch_found - branch_miss) >>

\* dumpBranchCoverageToLcovInfo(f, branches); i is 0-based as in enumerate
dumpBranchCoverageToLcovInfo(brs) ==
    LET brda == SortInts(UNION { { <<line_num, (i - 1) \div 2, i - 1, brs[line_num][i]>> :
                                      i \in 1..Len(brs[line_num]) } : line_num \in DOMAIN brs })
        branch_found == Len(brda)
        branch_miss  == Cardinality({ k \in 1..Len(brda) : brda[k][4] = 0 })
    IN  [k \in 1..Len(brda) |->
            <<"B", "R", "D", "A", ":">> \o Str(brda[k][1]) \o <<",">> \o Str(brda[k][2])
                \o <<",">> \o Str(brda[k][3]) \o <<",">> \o Str(brda[k][4])]
        \o << <<"B", "R", "F", ":">> \o Str(branch_found),
              <<"B", "R", "H", ":">> \o Str(branch_found - branch_miss) >>

\* lines 199-207: the line section of one source
LineSection(lns) ==
    LET da == SortInts({ <<line_num, lns[line_num]>> : line_num \in DOMAIN lns })
        line_miss == Cardinality({ n \in DOMAIN lns : lns[n] = 0 })
    IN  [k \in 1..Len(da) |-> <<"D", "A", ":">> \o Str(da[k][1]) \o <<",">> \o Str(da[k][2])]
        \o << <<"L", "F", ":">> \o Str(Cardinality(DOMAIN lns)),
              <<"L", "H", ":">> \o Str(Cardinality(DOMAIN lns) - line_miss) >>

\* lines 176-208: the record of one source
SourceBlock(sf, data) ==
    << <<"T", "N", ":">>, <<"S", "F", ":">> \o sf >>
    \o FunctionSection(data.functions)
    \o (IF data.branches # EmptyDict THEN dumpBranchCoverageToLcovInfo(data.branches) ELSE <<>>)
    \o LineSection(data.lines)
    \o << <<"e", "n", "d", "_", "o", "f", "_", "r", "e", "c", "o", "r", "d">> >>

\* dumpToLcovInfo(fastcov_json, output): the lines written
dumpToLcovInfo(json) ==
    LET sources == json.sources
        order   == SortStrs(DOMAIN sources)
    IN  Concat([k \in 1..Len(order) |-> SourceBlock(order[k], sources[order[k]])])

\* json.dump of a dict with integer keys: every key is written as the string
\* str(key), since a JSON object has string keys only
JsonObject(d) ==
    [key \in { Str(n) : n \in DOMAIN d } |-> d[CHOOSE n \in DOMAIN d : Str(n) = key]]

\* mutant: json.dump(..., skipkeys=True) drops the entries whose key is no string
dumpToJsonSkipKeys(json) ==
    [sources |-> [path \in DOMAIN json.sources |->
        [functions |-> json.sources[path].functions,
         lines     |-> EmptyDict,
         branches  |-> EmptyDict]]]

\* dumpToJson(intermediate, output) for the Report: the JSON document written,
\* as the value it denotes (objects are functions of their string keys)
dumpToJson(json) ==
    [sources |-> [path \in DOMAIN json.sources |->
        [functions |-> json.sources[path].functions,
         lines     |-> JsonObject(json.sources[path].lines),
         branches  |-> JsonObject(json.sources[path].branches)]]]

(***************************************************************************)
(* Specification SpecDump: the serializer on a Report as distillation and  *)
(* the scan leave it.                                                      *)
(***************************************************************************)
MaxDumpFunctions == 3

DumpFunctionNames == << <<"f">>, <<"g">>, <<"f", "g">>, <<"h">> >>

\* Function maps: any of the first MaxDumpFunctions names, each at start line
\* 4 or 7 with count 0 or 2.
DumpFunctionMaps ==
    UNION { [names -> [start_line : {4, 7}, execution_count : {0, 2}]] :
              names \in SUBSET { DumpFunctionNames[k] : k \in 1..MaxDumpFunctions } }

\* Line maps over a one-digit and a two-digit line number.
DumpLineMaps == UNION { [ns -> {0, 5}] : ns \in SUBSET {3, 12} }

\* Branch maps of a record with the given lines: branch entries exist only for
\* lines that have a line entry, and hold at least one count.
DumpBranchMaps(lns) ==
    UNION { [ns -> { <<0, 1>>, <<2, 0, 1>> }] : ns \in SUBSET (DOMAIN lns) }

DumpRecords ==
    UNION { [functions : DumpFunctionMaps, lines : {lns}, branches : DumpBranchMaps(lns)] :
              lns \in DumpLineMaps }

\* A second source that sorts before the first.
OtherDumpRecord ==
    [functions |-> [name \in { <<"h">> } |-> [start_line |-> 1, execution_count |-> 1]],
     lines     |-> [n \in {1} |-> 1],
     branches  |-> EmptyDict]

InitDump ==
    /\ \E rec \in DumpRecords :
           \/ fastcov_json = [sources |-> [path \in { <<"/", "b">> } |-> rec]]
           \/ fastcov_json = [sources |-> [path \in SourcePaths |->
                                 IF path = <<"/", "b">> THEN rec ELSE OtherDumpRecord]]
    /\ output = [format |-> "none", text |-> <<>>, document |-> EmptyDict]

\* main, lines 481-483: args.lcov
DumpLcov ==
    /\ output.format = "none"
    /\ output' = [format |-> "lcov", text |-> dumpToLcovInfo(fastcov_json),
                  document |-> EmptyDict]
    /\ UNCHANGED fastcov_json
    /\ UNCHANGED <<filterVars, distillVars, lineVars, scanVars, mainVars>>

\* main, lines 487-489: the canonical JSON
DumpJson ==
    /\ output.format = "none"
    /\ output' = [format |-> "json", text |-> <<>>, document |-> dumpToJson(fastcov_json)]
    /\ UNCHANGED fastcov_json
    /\ UNCHANGED <<filterVars, distillVars, lineVars, scanVars, mainVars>>

NextDump == DumpLcov \/ DumpJson

InitSpecDump == InitDump /\ IdleFilter /\ IdleDistill /\ IdleLine /\ IdleScan /\ IdleMain

SpecDump == InitSpecDump /\ [][NextDump]_vars

(***************************************************************************)
(* C9: the canonical JSON read back.                                       *)
(***************************************************************************)
\* The keys of a Python dict, each with its type: an int key and the str key
\* that spells it are different keys.
IntKeys(d) == { [type |-> "int", text |-> Str(n)] : n \in DOMAIN d }

StrKeys(d) == { [type |-> "str", text |-> key] : key \in DOMAIN d }

\* int(key) for a string of decimal digits
RECURSIVE ParseInt(_)
ParseInt(key) ==
    IF key = <<>> THEN 0
    ELSE ParseInt(SubSeq(key, 1, Len(key) - 1)) * 10
         + ((CHOOSE k \in 1..10 : DecimalDigits[k] = key[Len(key)]) - 1)

\* A parsed object with its keys read as integers.
WithIntKeys(d) ==
    [n \in { ParseInt(key) : key \in DOMAIN d } |->
        d[CHOOSE key \in DOMAIN d : ParseInt(key) = n]]

\* json.load of the written document yields the value the document denotes.
Loaded == output.document

WrittenFunctionSection(sf) ==
    LET at == CHOOSE k \in 1..Len(output.text) : output.text[k] = <<"S", "F", ":">> \o sf
        n  == Cardinality(DOMAIN fastcov_json.sources[sf].functions)
    IN  SubSeq(output.text, at + 1, at + 2 * n + 2)

\* The ways to list the names of a function map once each.
Listings(functions) ==
    LET n == Cardinality(DOMAIN functions)
    IN  { q \in [1..n -> DOMAIN functions] : \A i, j \in 1..n : i # j => q[i] # q[j] }

\* C10: for every source the function section is one FN:<start_line>,<name>
\* line per function in ascending (start_line, name) order, then one
\* FNDA:<execution_count>,<name> line per function in ascending
\* (execution_count, name) order, then FNF:<functions> and FNH:<functions with
\* a nonzero count>; f with start line 4 and count 0 alone gives FN:4,f,
\* FNDA:0,f, FNF:1, FNH:0.
C10_FunctionSection ==
    output.format = "lcov" =>
        \A sf \in DOMAIN fastcov_json.sources :
            LET functions == fastcov_json.sources[sf].functions
                n == Cardinality(DOMAIN functions)
                section == WrittenFunctionSection(sf)
            IN  /\ Len(section) = 2 * n + 2
                /\ \E q \in Listings(functions) :
                       /\ \A i \in 1..(n - 1) :
                              IntStrLess(<<functions[q[i]].start_line, q[i]>>,
                                         <<functions[q[i + 1]].start_line, q[i + 1]>>)
                       /\ \A i \in 1..n :
                              section[i] = <<"F", "N", ":">> \o Str(functions[q[i]].start_line)
                                               \o <<",">> \o q[i]
                /\ \E q \in Listings(functions) :
                       /\ \A i \in 1..(n - 1) :
                              IntStrLess(<<functions[q[i]].execution_count, q[i]>>,
                                         <<functions[q[i + 1]].execution_count, q[i + 1]>>)
                       /\ \A i \in 1..n :
                              section[n + i] =
                                  <<"F", "N", "D", "A", ":">>
                                      \o Str(functions[q[i]].execution_count)
                                      \o <<",">> \o q[i]
                /\ section[2 * n + 1] = <<"F", "N", "F", ":">> \o Str(n)
                /\ section[2 * n + 2] =
                       <<"F", "N", "H", ":">>
                           \o Str(Cardinality({ f \in DOMAIN functions :
                                                  functions[f].execution_count # 0 }))
                /\ functions = [name \in { <<"f">> } |->
                                   [start_line |-> 4, execution_count |-> 0]]
                   => section = << <<"F", "N", ":", "4", ",", "f">>,
                                   <<"F", "N", "D", "A", ":", "0", ",", "f">>,
                                   <<"F", "N", "F", ":", "1">>,
                                   <<"F", "N", "H", ":", "0">> >>

\* f (start line 4, count 2) and g (start line 7, count 0): FN lists f first,
\* FNDA lists g first.
C10_Witness ==
    /\ output.format = "lcov"
    /\ fastcov_json.sources[<<"/", "b">>].functions =
           [name \in { <<"f">>, <<"g">> } |->
               IF name = <<"f">> THEN [start_line |-> 4, execution_count |-> 2]
               ELSE [start_line |-> 7, execution_count |-> 0]]
    /\ WrittenFunctionSection(<<"/", "b">>) =
           << <<"F", "N", ":", "4", ",", "f">>,
              <<"F", "N", ":", "7", ",", "g">>,
              <<"F", "N", "D", "A", ":", "0", ",", "g">>,
              <<"F", "N", "D", "A", ":", "2", ",", "f">>,
              <<"F", "N", "F", ":", "2">>,
              <<"F", "N", "H", ":", "1">> >>

\* f alone, with start line 4 and count 0, was written.
C10_WitnessExample ==
    /\ output.format = "lcov"
    /\ fastcov_json.sources[<<"/", "b">>].functions =
           [name \in { <<"f">> } |-> [start_line |-> 4, execution_count |-> 0]]
    /\ Len(output.text) > 0

(***************************************************************************)
(* C11: the branch section of the LCOV output.                             *)
(***************************************************************************)
\* The lines written for source sf after its function section, up to and
\* including end_of_record.
WrittenAfterFunctions(sf) ==
    LET at == CHOOSE k \in 1..Len(output.text) : output.text[k] = <<"S", "F", ":">> \o sf
        n  == Cardinality(DOMAIN fastcov_json.sources[sf].functions)
        to == CHOOSE k \in (at + 1)..Len(output.text) :
                  /\ output.text[k] = <<"e", "n", "d", "_", "o", "f", "_", "r", "e", "c", "o", "r", "d">>
                  /\ \A j \in (at + 1)..(k - 1) :
                         output.text[j] # <<"e", "n", "d", "_", "o", "f", "_", "r", "e", "c", "o", "r", "d">>
    IN  SubSeq(output.text, at + 2 * n + 3, to)

\* The stored branch counts of a branch map, as (line, branch_index) with the
\* index counted from 0.
StoredBranches(brs) ==
    UNION { { <<line_num, idx>> : idx \in 0..(Len(brs[line_num]) - 1) } : line_num \in DOMAIN brs }

\* The tuple (line, block, branch_index, count) of a stored branch.
BrdaTuple(brs, b) == <<b[1], b[2] \div 2, b[2], brs[b[1]][b[2] + 1]>>

\* Ascending order of 4-tuples of integers, component by component.
TupleBefore(x, y) ==
    \E k \in 1..4 : x[k] < y[k] /\ \A j \in 1..(k - 1) : x[j] = y[j]

\* C11: a source's branch section is written iff its branch map is non-empty;
\* it is one BRDA:<line>,<block>,<branch_index>,<count> line per stored branch
\* count with block = floor(branch_index / 2), in ascending order of (line,
\* block, branch_index, count), then BRF:<stored branches> and BRH:<stored
\* branches with a nonzero count>; BRH <= BRF and BRF is the number of BRDA
\* lines.
C11_BranchSection ==
    output.format = "lcov" =>
        \A sf \in DOMAIN fastcov_json.sources :
            LET brs    == fastcov_json.sources[sf].branches
                rest   == WrittenAfterFunctions(sf)
                stored == StoredBranches(brs)
                total  == Cardinality(stored)
                hit    == Cardinality({ b \in stored : BrdaTuple(brs, b)[4] # 0 })
                BrLines == { k \in 1..Len(rest) : SubSeq(rest[k], 1, 2) = <<"B", "R">> }
                Rank(b) == 1 + Cardinality({ c \in stored :
                                               TupleBefore(BrdaTuple(brs, c), BrdaTuple(brs, b)) })
            IN  /\ (BrLines # {}) <=> (brs # EmptyDict)
                /\ brs # EmptyDict =>
                       /\ BrLines = 1..(total + 2)
                       /\ \A b \in stored :
                              LET v == BrdaTuple(brs, b)
                              IN  rest[Rank(b)] =
                                      <<"B", "R", "D", "A", ":">> \o Str(v[1]) \o <<",">>
                                          \o Str(v[2]) \o <<",">> \o Str(v[3]) \o <<",">>
                                          \o Str(v[4])
                       /\ rest[total + 1] = <<"B", "R", "F", ":">> \o Str(total)
                       /\ rest[total + 2] = <<"B", "R", "H", ":">> \o Str(hit)
                       /\ hit <= total
                       /\ Cardinality({ k \in BrLines :
                                          SubSeq(rest[k], 1, 5) = <<"B", "R", "D", "A", ":">> })
                              = total

\* Branch lists on lines 3 and 12: line 12's three counts are written after
\* line 3's two, the third in block 1.
C11_Witness ==
    /\ output.format = "lcov"
    /\ fastcov_json.sources[<<"/", "b">>].branches = (3 :> <<0, 1>> @@ 12 :> <<2, 0, 1>>)
    /\ SubSeq(WrittenAfterFunctions(<<"/", "b">>), 1, 7) =
           << <<"B", "R", "D", "A", ":", "3", ",", "0", ",", "0", ",", "0">>,
              <<"B", "R", "D", "A", ":", "3", ",", "0", ",", "1", ",", "1">>,
              <<"B", "R", "D", "A", ":", "1", "2", ",", "0", ",", "0", ",", "2">>,
              <<"B", "R", "D", "A", ":", "1", "2", ",", "0", ",", "1", ",", "0">>,
              <<"B", "R", "D", "A", ":", "1", "2", ",", "1", ",", "2", ",", "1">>,
              <<"B", "R", "F", ":", "5">>,
              <<"B", "R", "H", ":", "3">> >>

\* A source without branch entries: no branch section is written for it.
C11_WitnessNoBranches ==
    /\ output.format = "lcov"
    /\ fastcov_json.sources[<<"/", "b">>].branches = EmptyDict
    /\ fastcov_json.sources[<<"/", "b">>].lines # EmptyDict
    /\ Head(WrittenAfterFunctions(<<"/", "b">>))[1] = "D"

(***************************************************************************)
(* C16, C17: the initializer-noise suppression of filterExceptionalBranches *)
(* and the unpaired trailing branch, on the list line 327 stores.           *)
(***************************************************************************)
\* The adjacent pairs of a branch list, numbered from 1; pair p holds the
\* branches at positions 2p - 1 and 2p.
PairsOf(bs) == 1..(Len(bs) \div 2)

\* Pair p is an exception artifact: its second branch is flagged.
DroppedPair(bs, p) == bs[2 * p].throw

ZeroPair(bs, p) == bs[2 * p - 1].count = 0 /\ bs[2 * p].count = 0

\* The pairs before pair p that are not exception artifacts, latest first.
RetainedBefore(bs, p) == { r \in 1..(p - 1) : ~DroppedPair(bs, r) }

\* The incoming list with exactly the branches of its exception pairs removed.
WithoutExceptionPairs(bs) ==
    LET Outside(p) == p \notin ExceptionPositions(bs)
        kept == SelectSeq([p \in 1..Len(bs) |-> p], Outside)
    IN  [k \in 1..Len(kept) |-> bs[kept[k]]]

\* The condition as the specification words it: directly after a dropped
\* exception pair, the two most recently retained pairs are both zero/zero and
\* identical to each other.
SuppressionAsStated(bs) ==
    \E p \in PairsOf(bs) :
        /\ DroppedPair(bs, p)
        /\ \E r1, r2 \in RetainedBefore(bs, p) :
               /\ r1 < r2
               /\ \A r \in RetainedBefore(bs, p) : r <= r1 \/ r = r2
               /\ ZeroPair(bs, r1) /\ ZeroPair(bs, r2)
               /\ <<bs[2 * r1 - 1], bs[2 * r1]>> = <<bs[2 * r2 - 1], bs[2 * r2]>>

\* The condition of line 310: a pair that is no exception artifact and has two
\* zero counts, after some dropped exception pair, while the pair retained last
\* has two equal counts.
SuppressionFires(bs) ==
    \E p \in PairsOf(bs) :
        /\ ~DroppedPair(bs, p)
        /\ ZeroPair(bs, p)
        /\ \E q \in 1..(p - 1) : DroppedPair(bs, q)
        /\ \E r \in RetainedBefore(bs, p) :
               /\ \A x \in RetainedBefore(bs, p) : x <= r
               /\ bs[2 * r - 1].count = bs[2 * r].count

\* The line object given to distillLine and the branch list line 327 stored.
FilterRan == line_history # <<>> /\ ~include_exceptional_branches

\* C16 as stated: the filtered list is empty exactly under the condition the
\* specification words, and otherwise the incoming list without its exception
\* pairs.
C16_SuppressionAsStated ==
    FilterRan =>
        LET bs == line_history[1].branches IN
        filtered_history[1].branches =
            IF SuppressionAsStated(bs) THEN <<>> ELSE WithoutExceptionPairs(bs)

\* C16, amended: the filtered list is replaced by the empty list iff the list
\* holds a pair that is no exception artifact, has two zero counts, comes after
\* some dropped exception pair, and is preceded by a retained pair of which the
\* latest has two equal counts; otherwise it is the incoming list with exactly
\* the exception pairs removed.
C16_Suppression ==
    FilterRan =>
        LET bs == line_history[1].branches IN
        filtered_history[1].branches =
            IF SuppressionFires(bs) THEN <<>> ELSE WithoutExceptionPairs(bs)

\* A taken pair, an exception pair and a zero pair: the list is emptied, though
\* only one pair was retained and it is not zero/zero.
C16_Witness ==
    /\ FilterRan
    /\ line_history[1].branches =
           << Branch(1, FALSE), Branch(1, FALSE), Branch(0, FALSE), Branch(1, TRUE),
              Branch(0, FALSE), Branch(0, FALSE) >>
    /\ filtered_history[1].branches = <<>>

\* The pair retained before the zero pair has unequal counts: nothing but the
\* exception pair is removed.
C16_WitnessNoSuppression ==
    /\ FilterRan
    /\ line_history[1].branches =
           << Branch(1, FALSE), Branch(0, FALSE), Branch(0, FALSE), Branch(1, TRUE),
              Branch(0, FALSE), Branch(0, FALSE) >>
    /\ filtered_history[1].branches =
           << Branch(1, FALSE), Branch(0, FALSE), Branch(0, FALSE), Branch(0, FALSE) >>

\* C17 as stated: for an incoming list of odd length the filtered list ends
\* with the input's last element, whatever the counts and flags.
C17_TrailingRetained ==
    FilterRan =>
        LET bs  == line_history[1].branches
            out == filtered_history[1].branches
        IN  Len(bs) % 2 = 1 => (out # <<>> /\ out[Len(out)] = bs[Len(bs)])

\* C17, amended: for an incoming list of odd length the filtered list ends
\* with the input's last element, unchanged, unless the initializer-noise
\* suppression fires on an earlier pair; then the filtered list is empty and
\* the trailing branch is dropped with the rest.
C17_TrailingRetainedUnlessSuppressed ==
    FilterRan =>
        LET bs  == line_history[1].branches
            out == filtered_history[1].branches
        IN  Len(bs) % 2 = 1 =>
                IF SuppressionFires(bs) THEN out = <<>>
                ELSE out # <<>> /\ out[Len(out)] = bs[Len(bs)]

\* A flagged trailing branch after an exception pair is retained with its flag.
C17_Witness ==
    /\ FilterRan
    /\ line_history[1].branches = << Branch(1, FALSE), Branch(0, TRUE), Branch(1, TRUE) >>
    /\ filtered_history[1].branches = << Branch(1, TRUE) >>

\* Seven branches, the suppression fires on the third pair: the trailing
\* branch is not retained.
C17_WitnessSuppressed ==
    /\ FilterRan
    /\ Len(line_history[1].branches) = 7
    /\ SuppressionFires(line_history[1].branches)
    /\ line_history[1].branches[7].count = 1
    /\ filtered_history[1].branches = <<>>

(***************************************************************************)
(* C18, C19: the pending range start, and the monotonicity of the scan.    *)
(***************************************************************************)
\* The number of lines of the k-th source of the chunk whose loop body the
\* worker has completed.
Progress(k) ==
    IF worker.k > k THEN Len(source_text[chunk[k]])
    ELSE IF worker.k = k THEN worker.i
    ELSE 0

\* The pending range start after the first n lines of a text: the line of the
\* latest range start that no range stop has followed, or 0.
RECURSIVE PendingAfter(_, _)
PendingAfter(text, n) ==
    IF n = 0 THEN 0
    ELSE IF IsSubstring(LCOV_EXCL_START, text[n]) THEN n
    ELSE IF IsSubstring(LCOV_EXCL_STOP, text[n]) THEN 0
    ELSE PendingAfter(text, n - 1)

\* The numbers within [pending start, e] for the range stops e among the first
\* n lines that find a start pending.
RangesUpTo(text, n) ==
    UNION { PendingAfter(text, e - 1)..e :
              e \in { x \in 1..n : /\ IsSubstring(LCOV_EXCL_STOP, text[x])
                                   /\ PendingAfter(text, x - 1) # 0 } }

\* The lines among the first n that hold a keyword.
MarkedUpTo(text, n, keyword) == { x \in 1..n : IsSubstring(keyword, text[x]) }

\* C18: over the lines of a source that the scan has processed, in order, a
\* range start sets the pending start to its own line and replaces a pending
\* one; a range stop at e with pending start s deletes exactly the line and
\* branch entries numbered in [s, e] and clears the pending start; a range stop
\* without a pending start deletes nothing.  (The line map loses nothing but
\* those ranges and the single excluded lines; the branch map, which the
\* prefix filters also prune, holds no entry of a range and, without prefix
\* filters, loses nothing but the ranges and the single marked lines.)
C18_PendingStart ==
    \A k \in 1..Len(chunk) :
        LET source == chunk[k]
            text   == source_text[source]
            n      == Progress(k)
            before == sources_before[source]
            after  == fastcov_sources[source]
            ranges == RangesUpTo(text, n)
            single == MarkedUpTo(text, n, LCOV_EXCL_LINE)
        IN  /\ worker.k = k => worker.start_line = PendingAfter(text, n)
            /\ DOMAIN after.lines = (DOMAIN before.lines) \ (ranges \cup single)
            /\ (DOMAIN after.branches) \cap ranges = {}
            /\ (include_branches_sw = <<>> /\ exclude_branches_sw = <<>>)
               => DOMAIN after.branches =
                      (DOMAIN before.branches)
                          \ (ranges \cup single \cup MarkedUpTo(text, n, LCOV_EXCL_BR_LINE))

\* Starts at lines 1 and 2, stops at lines 3 and 4, entries on lines 1..5: the
\* entries of lines 2 and 3 are gone, the entry of line 1 remains, and the
\* second stop deleted nothing.
C18_Witness ==
    /\ worker.status = "done"
    /\ include_branches_sw = <<>> /\ exclude_branches_sw = <<>>
    /\ LET text == source_text[chunk[1]]
       IN  /\ Len(text) = 4
           /\ MarkedUpTo(text, 4, LCOV_EXCL_START) = {1, 2}
           /\ MarkedUpTo(text, 4, LCOV_EXCL_STOP) = {3, 4}
    /\ DOMAIN sources_before[chunk[1]].lines = 1..5
    /\ DOMAIN fastcov_sources[chunk[1]].lines = {1, 4, 5}
    /\ DOMAIN fastcov_sources[chunk[1]].branches = {1, 4, 5}

\* C19: at every step of the scan, under every prefix-filter configuration,
\* each source's line map and branch map are sub-maps of what they were before
\* the scan: no key is added, and every line count and branch-count list still
\* present has its value of before the scan.
C19_ScanMonotonic ==
    /\ DOMAIN fastcov_sources = DOMAIN sources_before
    /\ \A source \in DOMAIN fastcov_sources :
           LET before == sources_before[source]
               after  == fastcov_sources[source]
           IN  /\ DOMAIN after.lines \subseteq DOMAIN before.lines
               /\ \A n \in DOMAIN after.lines : after.lines[n] = before.lines[n]
               /\ DOMAIN after.branches \subseteq DOMAIN before.branches
               /\ \A n \in DOMAIN after.branches : after.branches[n] = before.branches[n]

\* With both prefix lists configured the scan of the first source has removed
\* a line entry and a branch entry and left others in place.
C19_Witness ==
    /\ worker.k >= 1
    /\ include_branches_sw # <<>> /\ exclude_branches_sw # <<>>
    /\ LET before == sources_before[chunk[1]]
           after  == fastcov_sources[chunk[1]]
       IN  /\ DOMAIN after.lines # DOMAIN before.lines
           /\ DOMAIN after.lines # {}
           /\ DOMAIN after.branches # DOMAIN before.branches
           /\ DOMAIN after.branches # {}
           /\ DOMAIN after.branches # DOMAIN after.lines

(***************************************************************************)
(* main: the two fan-out phases with their threads, distillation between   *)
(* them and the serializer after them.                                     *)
(***************************************************************************)
\* chunks(l, n): the slices l[i:i + n] for i in range(0, len(l), n); i is
\* 0-based as in the source
RECURSIVE chunksFrom(_, _, _)
chunksFrom(l, n, i) ==
    IF i >= Len(l) THEN <<>>
    ELSE << SubSeq(l, i + 1, IF i + n <= Len(l) THEN i + n ELSE Len(l)) >>
         \o chunksFrom(l, n, i + n)

\* mutant: every slice runs one element into the next one
RECURSIVE chunksOverlappingFrom(_, _, _)
chunksOverlappingFrom(l, n, i) ==
    IF i >= Len(l) THEN <<>>
    ELSE << SubSeq(l, i + 1, IF i + n + 1 <= Len(l) THEN i + n + 1 ELSE Len(l)) >>
         \o chunksOverlappingFrom(l, n, i + n)

chunksOverlapping(l, n) == chunksOverlappingFrom(l, n, 0)

chunks(l, n) == chunksFrom(l, n, 0)

\* lines 111 and 263: max(min_chunk_size, int(len(l) / jobs) + 1); the quotient
\* of two non-negative integers, truncated
ChunkSize(min_chunk, length, njobs) == Max(min_chunk, (length \div njobs) + 1)

\* mutant: a thread that died of an exception is never joined
ThreadEndedNormally(thread) == thread.status = "done"

\* mutant: join returns at once
ThreadEndedNoWait(thread) == TRUE

\* t.join() returns once the thread has ended, by return or by exception
ThreadEnded(thread) == thread.status # "running"

\* mutant: the skipped tally is the number of records kept
SkippedOfLineKept(total, kept) == Len(kept)

\* line 107: len(intermediate_json["files"]) - len(intermediate_json_files)
SkippedOfLine(total, kept) == total - Len(kept)

\* The raw collection as distillReport leaves it (distillLine, line 327,
\* assigns to the raw line objects).
RawAfterDistill(raw, include_exceptional) ==
    [k \in 1..Len(raw) |-> distillSource(raw[k], EmptyDict, include_exceptional).source_raw]

\* list(fastcov_json["sources"].keys()): the paths in the order distillSource
\* first inserted them
RECURSIVE KeysFrom(_, _, _)
KeysFrom(raw, k, keys) ==
    IF k > Len(raw) THEN keys
    ELSE IF \E j \in 1..Len(keys) : keys[j] = raw[k].file_abs
         THEN KeysFrom(raw, k + 1, keys)
         ELSE KeysFrom(raw, k + 1, Append(keys, raw[k].file_abs))

SourceKeys(raw) == KeysFrom(raw, 1, <<>>)

(***************************************************************************)
(* Specification SpecMain: one run of main.                                *)
(***************************************************************************)
MaxCoverageFiles == 3

\* args.jobs and args.minimum_chunk
JobsOptions == {1, 2, 4}

MinimumChunks == {1, 2}

\* The per-file objects of the line gcov prints for a coverage file: the odd
\* ones cover source a and a header, the even ones source b; the counts tell
\* the coverage files apart.
ToolFiles(gcda) ==
    IF gcda % 2 = 1
    THEN << [file |-> <<"a">>,
             functions |-> << [name |-> <<"f">>, start_line |-> 1, execution_count |-> gcda] >>,
             lines |-> << [line_number |-> 1, count |-> gcda,
                           branches |-> << Branch(gcda, FALSE), Branch(0, FALSE) >>],
                          [line_number |-> 2, count |-> 0, branches |-> <<>>] >>],
            [file |-> <<"h">>, functions |-> <<>>,
             lines |-> << [line_number |-> 1, count |-> 1, branches |-> <<>>] >>] >>
    ELSE << [file |-> <<"b">>,
             functions |-> <<>>,
             lines |-> << [line_number |-> 1, count |-> gcda,
                           branches |-> << Branch(0, FALSE), Branch(gcda, FALSE) >>],
                          [line_number |-> 2, count |-> gcda, branches |-> <<>>] >>] >>

\* The text of the two sources: a line that starts with the exclude prefix
\* and a single-line exclusion; a branch exclusion and a plain line.
MainSourceText ==
    [path \in SourcePaths |->
        IF path = <<"/", "a">>
        THEN << <<" ", "a", "s", "\n">>, <<"x", " ">> \o LCOV_EXCL_LINE \o <<"\n">> >>
        ELSE << <<"i", "f", " ">> \o LCOV_EXCL_BR_LINE \o <<"\n">>, <<"i", "f", "\n">> >>]

\* What a run leaves alone: the arguments and the source files.
mainConfig == <<cwd, gcov_filter_options, include_exceptional_branches, source_text,
                exclude_branches_sw, include_branches_sw, coverage_files, jobs,
                min_chunk_size>>

\* State of the other specifications.
mainIdle == <<gcov_files, files, gcov_i, report_raw, raw_before, report_json, distill_i,
              lineVars, fastcov_sources, chunk, worker>>

InitMain ==
    /\ pc = "processGcdas"
    /\ \E n \in 0..MaxCoverageFiles : coverage_files = [k \in 1..n |-> k]
    /\ jobs \in JobsOptions
    /\ min_chunk_size \in MinimumChunks
    /\ chunk_size = 0
    /\ gcov_threads = <<>>
    /\ intermediate_json_files = <<>>
    /\ GCOVS_TOTAL = <<>>
    /\ GCOVS_SKIPPED = <<>>
    /\ scan_threads = <<>>
    /\ join_i = 0
    /\ cwd = <<"/">>
    /\ gcov_filter_options = [sources |-> {}, include |-> <<>>, exclude |-> << <<"h">> >>]
    /\ include_exceptional_branches = FALSE
    /\ fastcov_json = EmptyDict
    /\ sources_before = EmptyDict
    /\ source_text = MainSourceText
    /\ \/ include_branches_sw = <<>> /\ exclude_branches_sw = <<>>
       \/ include_branches_sw = << <<"i", "f">> >> /\ exclude_branches_sw = << <<"a", "s">> >>
    /\ output = [format |-> "none", text |-> <<>>, document |-> EmptyDict]
    /\ gcov_files = <<>> /\ files = <<>> /\ gcov_i = 0
    /\ report_raw = <<>> /\ raw_before = <<>> /\ report_json = EmptyDict /\ distill_i = 0
    /\ IdleLine
    /\ fastcov_sources = EmptyDict
    /\ chunk = <<>>
    /\ worker = [status |-> "done", k |-> 0, i |-> 0, start_line |-> 0, end_line |-> 0]

\* ---- processGcdas ----
\* line 111
ProcessGcdas ==
    /\ pc = "processGcdas"
    /\ chunk_size' = ChunkSize(min_chunk_size, Len(coverage_files), jobs)
    /\ pc' = "start_gcov"
    /\ UNCHANGED <<gcov_threads, intermediate_json_files, GCOVS_TOTAL, GCOVS_SKIPPED,
                   scan_threads, join_i, fastcov_json, sources_before, output>>
    /\ UNCHANGED <<mainConfig, mainIdle>>

\* lines 115-118: the next chunk gets its thread, which starts at once
StartGcovThread ==
    /\ pc = "start_gcov"
    /\ LET cs == chunks(coverage_files, chunk_size) IN
       /\ Len(gcov_threads) < Len(cs)
       /\ gcov_threads' =
              Append(gcov_threads,
                     [chunk |-> cs[Len(gcov_threads) + 1], status |-> "running",
                      step |-> "readline", read |-> 0, line_files |-> <<>>, total |-> 0,
                      f |-> 0, exit |-> "none"])
    /\ UNCHANGED <<pc, chunk_size, intermediate_json_files, GCOVS_TOTAL, GCOVS_SKIPPED,
                   scan_threads, join_i, fastcov_json, sources_before, output>>
    /\ UNCHANGED <<mainConfig, mainIdle>>

\* the loop of line 115 is exhausted
GcovThreadsStarted ==
    /\ pc = "start_gcov"
    /\ Len(gcov_threads) = Len(chunks(coverage_files, chunk_size))
    /\ pc' = "join_gcov"
    /\ join_i' = 0
    /\ UNCHANGED <<chunk_size, gcov_threads, intermediate_json_files, GCOVS_TOTAL,
                   GCOVS_SKIPPED, scan_threads, fastcov_json, sources_before, output>>
    /\ UNCHANGED <<mainConfig, mainIdle>>

\* lines 121-122: t.join() for the next thread
JoinGcovThread ==
    /\ pc = "join_gcov"
    /\ join_i < Len(gcov_threads)
    /\ ThreadEnded(gcov_threads[join_i + 1])
    /\ join_i' = join_i + 1
    /\ UNCHANGED <<pc, chunk_size, gcov_threads, intermediate_json_files, GCOVS_TOTAL,
                   GCOVS_SKIPPED, scan_threads, fastcov_json, sources_before, output>>
    /\ UNCHANGED <<mainConfig, mainIdle>>

\* line 124: processGcdas returns the collection
ProcessGcdasReturn ==
    /\ pc = "join_gcov"
    /\ join_i = Len(gcov_threads)
    /\ pc' = "distillReport"
    /\ UNCHANGED <<chunk_size, gcov_threads, intermediate_json_files, GCOVS_TOTAL,
                   GCOVS_SKIPPED, scan_threads, join_i, fastcov_json, sources_before, output>>
    /\ UNCHANGED <<mainConfig, mainIdle>>

\* ---- gcovWorker, thread t ----
GcovStep(t, step) ==
    /\ t \in 1..Len(gcov_threads)
    /\ gcov_threads[t].status = "running"
    /\ gcov_threads[t].step = step

gcovFrame == <<pc, chunk_size, scan_threads, join_i, fastcov_json, sources_before, output>>

\* lines 101-103: the next line of the tool's output is read and decoded, and
\* processGcovs filters its files
GcovDecodeLine ==
    \E t \in 1..Len(gcov_threads) :
        /\ GcovStep(t, "readline")
        /\ gcov_threads[t].read < Len(gcov_threads[t].chunk)
        /\ LET gcda == gcov_threads[t].chunk[gcov_threads[t].read + 1]
               kept == processGcovs(cwd, ToolFiles(gcda), gcov_filter_options)
           IN  gcov_threads' =
                   [gcov_threads EXCEPT ![t] =
                       [@ EXCEPT !.read = @ + 1, !.line_files = kept,
                                 !.total = Len(ToolFiles(gcda)), !.f = 0,
                                 !.step = IF kept = <<>> THEN "total" ELSE "append"]]
        /\ UNCHANGED <<intermediate_json_files, GCOVS_TOTAL, GCOVS_SKIPPED>>
        /\ UNCHANGED gcovFrame
        /\ UNCHANGED <<mainConfig, mainIdle>>

\* line 102: the fragment read cannot be decoded; json.loads raises and the
\* exception ends the thread
GcovDecodeFails ==
    \E t \in 1..Len(gcov_threads) :
        /\ GcovStep(t, "readline")
        /\ gcov_threads' = [gcov_threads EXCEPT ![t] = [@ EXCEPT !.status = "failed"]]
        /\ UNCHANGED <<intermediate_json_files, GCOVS_TOTAL, GCOVS_SKIPPED>>
        /\ UNCHANGED gcovFrame
        /\ UNCHANGED <<mainConfig, mainIdle>>

\* line 101: readline returns b'' -- the tool has printed all its lines, or
\* has exited early with a nonzero status
GcovEndOfOutput ==
    \E t \in 1..Len(gcov_threads) :
        /\ GcovStep(t, "readline")
        /\ gcov_threads' =
               [gcov_threads EXCEPT ![t] =
                   [@ EXCEPT !.step = "wait",
                             !.exit = IF gcov_threads[t].read < Len(gcov_threads[t].chunk)
                                      THEN "nonzero" ELSE "zero"]]
        /\ UNCHANGED <<intermediate_json_files, GCOVS_TOTAL, GCOVS_SKIPPED>>
        /\ UNCHANGED gcovFrame
        /\ UNCHANGED <<mainConfig, mainIdle>>

\* lines 104-105: files.append(f) for the next kept file
GcovAppendFile ==
    \E t \in 1..Len(gcov_threads) :
        /\ GcovStep(t, "append")
        /\ LET th == gcov_threads[t] IN
           /\ intermediate_json_files' = Append(intermediate_json_files, th.line_files[th.f + 1])
           /\ gcov_threads' =
                  [gcov_threads EXCEPT ![t] =
                      [@ EXCEPT !.f = @ + 1,
                                !.step = IF th.f + 1 = Len(th.line_files)
                                         THEN "total" ELSE "append"]]
        /\ UNCHANGED <<GCOVS_TOTAL, GCOVS_SKIPPED>>
        /\ UNCHANGED gcovFrame
        /\ UNCHANGED <<mainConfig, mainIdle>>

\* line 106: GCOVS_TOTAL.append
GcovAppendTotal ==
    \E t \in 1..Len(gcov_threads) :
        /\ GcovStep(t, "total")
        /\ GCOVS_TOTAL' = Append(GCOVS_TOTAL, gcov_threads[t].total)
        /\ gcov_threads' = [gcov_threads EXCEPT ![t] = [@ EXCEPT !.step = "skipped"]]
        /\ UNCHANGED <<intermediate_json_files, GCOVS_SKIPPED>>
        /\ UNCHANGED gcovFrame
        /\ UNCHANGED <<mainConfig, mainIdle>>

\* line 107: GCOVS_SKIPPED.append
GcovAppendSkipped ==
    \E t \in 1..Len(gcov_threads) :
        /\ GcovStep(t, "skipped")
        /\ GCOVS_SKIPPED' =
               Append(GCOVS_SKIPPED,
                      SkippedOfLine(gcov_threads[t].total, gcov_threads[t].line_files))
        /\ gcov_threads' = [gcov_threads EXCEPT ![t] = [@ EXCEPT !.step = "readline"]]
        /\ UNCHANGED <<intermediate_json_files, GCOVS_TOTAL>>
        /\ UNCHANGED gcovFrame
        /\ UNCHANGED <<mainConfig, mainIdle>>

\* line 108: p.wait() returns, whatever the exit status, and the worker ends
GcovWait ==
    \E t \in 1..Len(gcov_threads) :
        /\ GcovStep(t, "wait")
        /\ gcov_threads' = [gcov_threads EXCEPT ![t] = [@ EXCEPT !.status = "done"]]
        /\ UNCHANGED <<intermediate_json_files, GCOVS_TOTAL, GCOVS_SKIPPED>>
        /\ UNCHANGED gcovFrame
        /\ UNCHANGED <<mainConfig, mainIdle>>

\* ---- main, line 472: distillReport ----
DistillReport ==
    /\ pc = "distillReport"
    /\ fastcov_json' =
           [sources |-> distillReport(intermediate_json_files, include_exceptional_branches)]
    /\ intermediate_json_files' =
           RawAfterDistill(intermediate_json_files, include_exceptional_branches)
    /\ pc' = "scanExclusionMarkers"
    /\ UNCHANGED <<chunk_size, gcov_threads, GCOVS_TOTAL, GCOVS_SKIPPED, scan_threads,
                   join_i, sources_before, output>>
    /\ UNCHANGED <<mainConfig, mainIdle>>

\* ---- scanExclusionMarkers ----
\* line 263
ScanExclusionMarkers ==
    /\ pc = "scanExclusionMarkers"
    /\ chunk_size' = ChunkSize(min_chunk_size, Cardinality(DOMAIN fastcov_json.sources), jobs)
    /\ sources_before' = fastcov_json.sources
    /\ pc' = "start_scan"
    /\ UNCHANGED <<gcov_threads, intermediate_json_files, GCOVS_TOTAL, GCOVS_SKIPPED,
                   scan_threads, join_i, fastcov_json, output>>
    /\ UNCHANGED <<mainConfig, mainIdle>>

\* chunks(list(fastcov_json["sources"].keys()), chunk_size); the raw collection
\* holds the paths in the order the Report received its keys
ScanChunks == chunks(SourceKeys(intermediate_json_files), chunk_size)

\* lines 266-269: the next chunk gets its thread, which starts at once
StartScanThread ==
    /\ pc = "start_scan"
    /\ Len(scan_threads) < Len(ScanChunks)
    /\ scan_threads' =
           Append(scan_threads,
                  [chunk |-> ScanChunks[Len(scan_threads) + 1], status |-> "running",
                   k |-> 0, i |-> 0, start_line |-> 0, end_line |-> 0])
    /\ UNCHANGED <<pc, chunk_size, gcov_threads, intermediate_json_files, GCOVS_TOTAL,
                   GCOVS_SKIPPED, join_i, fastcov_json, sources_before, output>>
    /\ UNCHANGED <<mainConfig, mainIdle>>

ScanThreadsStarted ==
    /\ pc = "start_scan"
    /\ Len(scan_threads) = Len(ScanChunks)
    /\ pc' = "join_scan"
    /\ join_i' = 0
    /\ UNCHANGED <<chunk_size, gcov_threads, intermediate_json_files, GCOVS_TOTAL,
                   GCOVS_SKIPPED, scan_threads, fastcov_json, sources_before, output>>
    /\ UNCHANGED <<mainConfig, mainIdle>>

\* lines 272-273: t.join() for the next thread
JoinScanThread ==
    /\ pc = "join_scan"
    /\ join_i < Len(scan_threads)
    /\ ThreadEnded(scan_threads[join_i + 1])
    /\ join_i' = join_i + 1
    /\ UNCHANGED <<pc, chunk_size, gcov_threads, intermediate_json_files, GCOVS_TOTAL,
                   GCOVS_SKIPPED, scan_threads, fastcov_json, sources_before, output>>
    /\ UNCHANGED <<mainConfig, mainIdle>>

ScanExclusionMarkersReturn ==
    /\ pc = "join_scan"
    /\ join_i = Len(scan_threads)
    /\ pc' = "dump"
    /\ UNCHANGED <<chunk_size, gcov_threads, intermediate_json_files, GCOVS_TOTAL,
                   GCOVS_SKIPPED, scan_threads, join_i, fastcov_json, sources_before, output>>
    /\ UNCHANGED <<mainConfig, mainIdle>>

\* ---- exclMarkerWorker, thread t ----
scanFrame == <<pc, chunk_size, gcov_threads, intermediate_json_files, GCOVS_TOTAL,
               GCOVS_SKIPPED, join_i, sources_before, output>>

\* The thread is between two sources of its chunk.
ThreadBetweenSources(th) ==
    IF th.k = 0 THEN TRUE ELSE th.i = Len(source_text[th.chunk[th.k]])

\* lines 225-228: the next source of the chunk is taken and its text read
ScanThreadOpenSource ==
    \E t \in 1..Len(scan_threads) :
        /\ scan_threads[t].status = "running"
        /\ ThreadBetweenSources(scan_threads[t])
        /\ scan_threads[t].k < Len(scan_threads[t].chunk)
        /\ scan_threads' =
               [scan_threads EXCEPT ![t] =
                   [@ EXCEPT !.k = @ + 1, !.i = 0, !.start_line = 0, !.end_line = 0]]
        /\ UNCHANGED fastcov_json
        /\ UNCHANGED scanFrame
        /\ UNCHANGED <<mainConfig, mainIdle>>

\* lines 228-260: the loop body for the next line of the thread's source; a
\* KeyError ends the thread where it is raised
ScanThreadLine ==
    \E t \in 1..Len(scan_threads) :
        LET th == scan_threads[t] IN
        /\ th.status = "running"
        /\ th.k >= 1
        /\ th.i < Len(source_text[th.chunk[th.k]])
        /\ LET source == th.chunk[th.k]
               i == th.i + 1
               r == exclLine(fastcov_json.sources[source], i, source_text[source][i],
                             th.start_line, th.end_line,
                             exclude_branches_sw, include_branches_sw)
           IN  /\ fastcov_json' = [fastcov_json EXCEPT !.sources[source] = r.rec]
               /\ scan_threads' =
                      [scan_threads EXCEPT ![t] =
                          IF r.raised
                          THEN [@ EXCEPT !.status = "failed"]
                          ELSE [@ EXCEPT !.i = i, !.start_line = r.start_line,
                                         !.end_line = r.end_line]]
        /\ UNCHANGED scanFrame
        /\ UNCHANGED <<mainConfig, mainIdle>>

\* the loop of line 225 is exhausted and the worker returns
ScanThreadReturn ==
    \E t \in 1..Len(scan_threads) :
        /\ scan_threads[t].status = "running"
        /\ ThreadBetweenSources(scan_threads[t])
        /\ scan_threads[t].k = Len(scan_threads[t].chunk)
        /\ scan_threads' = [scan_threads EXCEPT ![t] = [@ EXCEPT !.status = "done"]]
        /\ UNCHANGED fastcov_json
        /\ UNCHANGED scanFrame
        /\ UNCHANGED <<mainConfig, mainIdle>>

\* ---- main, lines 481-489: the output ----
Dump ==
    /\ pc = "dump"
    /\ \/ output' = [format |-> "lcov", text |-> dumpToLcovInfo(fastcov_json),
                     document |-> EmptyDict]
       \/ output' = [format |-> "raw", text |-> <<>>, document |-> intermediate_json_files]
       \/ output' = [format |-> "json", text |-> <<>>, document |-> dumpToJson(fastcov_json)]
    /\ pc' = "done"
    /\ UNCHANGED <<chunk_size, gcov_threads, intermediate_json_files, GCOVS_TOTAL,
                   GCOVS_SKIPPED, scan_threads, join_i, fastcov_json, sources_before>>
    /\ UNCHANGED <<mainConfig, mainIdle>>

NextMain ==
    \/ ProcessGcdas \/ StartGcovThread \/ GcovThreadsStarted
    \/ GcovDecodeLine \/ GcovDecodeFails \/ GcovEndOfOutput
    \/ GcovAppendFile \/ GcovAppendTotal \/ GcovAppendSkipped \/ GcovWait
    \/ JoinGcovThread \/ ProcessGcdasReturn
    \/ DistillReport
    \/ ScanExclusionMarkers \/ StartScanThread \/ ScanThreadsStarted
    \/ ScanThreadOpenSource \/ ScanThreadLine \/ ScanThreadReturn
    \/ JoinScanThread \/ ScanExclusionMarkersReturn
    \/ Dump

InitSpecMain == InitMain

SpecMain == InitSpecMain /\ [][NextMain]_vars

(***************************************************************************)
(* C12 - C15, C20: the fan-out phases of main.                             *)
(***************************************************************************)
GcovPhase == {"start_gcov", "join_gcov"}

ScanPhase == {"start_scan", "join_scan"}

\* ceil(a / b) for a >= 0 and b >= 1
Ceil(a, b) == (a + b - 1) \div b

\* The chunks of a sequence of threads cut a list of the given length into
\* contiguous chunks of the given size, as far as the threads are started.
ChunkedBy(threads, length, size) ==
    /\ \A t \in 1..(Len(threads) - 1) : Len(threads[t].chunk) = size
    /\ Len(threads) <= Ceil(length, size)

\* C12 as stated: for a total of at least one, both fan-out phases use the
\* chunk size max(minChunkSize, ceil(total / workerCount)), every chunk but the
\* last has exactly that size, and there is one worker per chunk.
C12_ChunkSize ==
    /\ (pc \in GcovPhase /\ Len(coverage_files) >= 1) =>
           LET size == Max(min_chunk_size, Ceil(Len(coverage_files), jobs))
           IN  /\ chunk_size = size
               /\ ChunkedBy(gcov_threads, Len(coverage_files), size)
               /\ pc = "join_gcov" => Len(gcov_threads) = Ceil(Len(coverage_files), size)
    /\ (pc \in ScanPhase /\ fastcov_json.sources # EmptyDict) =>
           LET total == Cardinality(DOMAIN fastcov_json.sources)
               size  == Max(min_chunk_size, Ceil(total, jobs))
           IN  /\ chunk_size = size
               /\ ChunkedBy(scan_threads, total, size)
               /\ pc = "join_scan" => Len(scan_threads) = Ceil(total, size)

\* All threads of a phase are started and have ended.
AllEnded(threads, nchunks) ==
    /\ Len(threads) = nchunks
    /\ \A t \in 1..Len(threads) : threads[t].status # "running"

\* C13: distillation starts only after every dispatch worker has ended, the
\* scan only after distillation, the serializer only after every scanner worker
\* has ended; no worker runs while a later phase reads or writes its data, and
\* the raw collection and the Report change only in their own phases.
C13_PhaseOrder ==
    /\ pc \in {"processGcdas", "start_gcov", "join_gcov", "distillReport",
               "scanExclusionMarkers", "start_scan", "join_scan", "dump", "done"}
    /\ pc \notin ({"processGcdas"} \cup GcovPhase) =>
           AllEnded(gcov_threads, Len(chunks(coverage_files,
                        ChunkSize(min_chunk_size, Len(coverage_files), jobs))))
    /\ pc \in ({"processGcdas", "distillReport"} \cup GcovPhase) =>
           fastcov_json = EmptyDict /\ scan_threads = <<>>
    /\ pc = "scanExclusionMarkers" => fastcov_json # EmptyDict /\ scan_threads = <<>>
    /\ pc \in {"dump", "done"} =>
           /\ \A t \in 1..Len(scan_threads) : scan_threads[t].status # "running"
           /\ \A path \in DOMAIN fastcov_json.sources :
                  \E t \in 1..Len(scan_threads) :
                      \E k \in 1..Len(scan_threads[t].chunk) : scan_threads[t].chunk[k] = path
    /\ output.format # "none" <=> pc = "done"

\* Two dispatch workers and two scanner workers, one of which died, have all
\* ended when the serializer has written the output.
C13_Witness ==
    /\ pc = "done"
    /\ Len(gcov_threads) = 2
    /\ Len(scan_threads) = 2
    /\ \E t \in 1..2 : scan_threads[t].status = "failed"
    /\ \E t \in 1..2 : gcov_threads[t].status = "failed"
    /\ output.format = "lcov"

\* a is a subsequence of b: its elements occur in b in the same order.
RECURSIVE IsSubsequence(_, _)
IsSubsequence(a, b) ==
    IF a = <<>> THEN TRUE
    ELSE IF b = <<>> THEN FALSE
    ELSE IF Head(a) = Head(b) THEN IsSubsequence(Tail(a), Tail(b))
    ELSE IsSubsequence(a, Tail(b))

\* The per-file objects of the lines a dispatch worker has decoded.
DecodedBy(thread) ==
    Concat([k \in 1..thread.read |-> ToolFiles(thread.chunk[k])])

\* Those of them that Filter Policy keeps, with their absolute path.
SurvivorsOf(thread) ==
    LET decoded == DecodedBy(thread)
    IN  SelectSeq([k \in 1..Len(decoded) |-> WithFileAbs(cwd, decoded[k])], KeptRecord)

\* A step of the dispatch phase keeps every record of the shared collection
\* in its place, leaves a failed worker as it is, and reads no line again.
DispatchStepKeepsRecords ==
    (pc \in GcovPhase /\ pc' \in GcovPhase) =>
        /\ Len(intermediate_json_files) <= Len(intermediate_json_files')
        /\ SubSeq(intermediate_json_files', 1, Len(intermediate_json_files))
               = intermediate_json_files
        /\ \A t \in 1..Len(gcov_threads) :
               /\ gcov_threads[t].status = "failed" => gcov_threads'[t] = gcov_threads[t]
               /\ gcov_threads'[t].read >= gcov_threads[t].read

\* C14: while the dispatch phase runs no record leaves the shared collection;
\* a worker whose tool invocation failed is not started again; when
\* processGcdas has returned the collection holds the records of every line
\* each worker decoded, those of the failed workers included, and all records
\* of every worker whose tool ran to its end; and once all workers have ended,
\* by return or by failure, the join loop goes on and processGcdas returns.
C14_FailureIsLocal ==
    /\ [][DispatchStepKeepsRecords]_vars
    /\ [](pc = "distillReport" =>
              \A t \in 1..Len(gcov_threads) :
                  /\ IsSubsequence(SurvivorsOf(gcov_threads[t]), intermediate_json_files)
                  /\ (gcov_threads[t].status = "done" /\ gcov_threads[t].exit = "zero")
                     => gcov_threads[t].read = Len(gcov_threads[t].chunk))
    /\ []((pc = "join_gcov"
              /\ \A t \in 1..Len(gcov_threads) : gcov_threads[t].status # "running")
           => ENABLED (JoinGcovThread \/ ProcessGcdasReturn))

\* One worker's tool printed an undecodable fragment after its first line, the
\* other ran to its end: the first line's record and the other worker's records
\* are in the collection, and the Report has been distilled from them.
C14_Witness ==
    /\ pc = "scanExclusionMarkers"
    /\ Len(gcov_threads) = 2
    /\ gcov_threads[1].status = "failed" /\ gcov_threads[1].read = 1
    /\ Len(gcov_threads[1].chunk) = 2
    /\ gcov_threads[2].status = "done" /\ gcov_threads[2].exit = "zero"
    /\ Len(intermediate_json_files) = 2
    /\ DOMAIN fastcov_json.sources = { <<"/", "a">> }

\* The tool of one worker exited early with a nonzero status.
C14_WitnessNonzeroExit ==
    /\ pc = "scanExclusionMarkers"
    /\ \E t \in 1..Len(gcov_threads) :
           /\ gcov_threads[t].status = "done"
           /\ gcov_threads[t].exit = "nonzero"
           /\ gcov_threads[t].read = 1
    /\ Len(intermediate_json_files) = 1

\* The number of elements of a sequence equal to x.
CountOf(s, x) == Cardinality({ k \in 1..Len(s) : s[k] = x })

\* C15: once all dispatch workers are joined, under every interleaving, the
\* shared collection holds each per-file object that survived Filter Policy
\* exactly as often as the workers decoded it (once each) and nothing else, the
\* total tally is the number of objects decoded by all workers, the skipped
\* tally the number of those Filter Policy dropped, and total minus skipped is
\* the length of the collection.
C15_NothingLostOrDuplicated ==
    pc = "distillReport" =>
        LET T == 1..Len(gcov_threads)
            decoded   == SumSeq([t \in T |-> Len(DecodedBy(gcov_threads[t]))])
            survivors == Concat([t \in T |-> SurvivorsOf(gcov_threads[t])])
        IN  /\ Len(intermediate_json_files) = Len(survivors)
            /\ \A k \in 1..Len(survivors) :
                   CountOf(intermediate_json_files, survivors[k])
                       = CountOf(survivors, survivors[k])
            /\ SumSeq(GCOVS_TOTAL) = decoded
            /\ SumSeq(GCOVS_SKIPPED) = decoded - Len(survivors)
            /\ SumSeq(GCOVS_TOTAL) - SumSeq(GCOVS_SKIPPED) = Len(intermediate_json_files)

\* Three workers with one coverage file each have all ended normally: five
\* objects decoded, two headers skipped, three records collected, the record of
\* the last worker first.
C15_Witness ==
    /\ pc = "distillReport"
    /\ Len(gcov_threads) = 3
    /\ \A t \in 1..3 : gcov_threads[t].status = "done" /\ gcov_threads[t].read = 1
    /\ SumSeq(GCOVS_TOTAL) = 5
    /\ SumSeq(GCOVS_SKIPPED) = 2
    /\ Len(intermediate_json_files) = 3
    /\ intermediate_json_files[1] = WithFileAbs(cwd, ToolFiles(3)[1])
    /\ GCOVS_TOTAL[1] = 1

\* The scan of one source from line i on, alone: the record it leaves, and
\* whether the worker died in it.
RECURSIVE ScanSourceAlone(_, _, _, _, _)
ScanSourceAlone(rec, text, i, start_line, end_line) ==
    IF i > Len(text) THEN [rec |-> rec, raised |-> FALSE]
    ELSE LET r == exclLine(rec, i, text[i], start_line, end_line,
                           exclude_branches_sw, include_branches_sw)
         IN  IF r.raised THEN [rec |-> r.rec, raised |-> TRUE]
             ELSE ScanSourceAlone(r.rec, text, i + 1, r.start_line, r.end_line)

\* One worker run from its k-th source on with no other thread running.
RECURSIVE ScanChunkAlone(_, _, _)
ScanChunkAlone(sources, ch, k) ==
    IF k > Len(ch) THEN sources
    ELSE LET r == ScanSourceAlone(sources[ch[k]], source_text[ch[k]], 1, 0, 0)
             s == [sources EXCEPT ![ch[k]] = r.rec]
         IN  IF r.raised THEN s ELSE ScanChunkAlone(s, ch, k + 1)

\* The workers run one after the other.
RECURSIVE ScanOneByOne(_, _)
ScanOneByOne(sources, t) ==
    IF t > Len(scan_threads) THEN sources
    ELSE ScanOneByOne(ScanChunkAlone(sources, scan_threads[t].chunk, 1), t + 1)

\* The places (thread, index) of a path in the chunks of the scanner workers.
PlacesOf(path) ==
    { p \in UNION { { <<t, k>> : k \in 1..Len(scan_threads[t].chunk) } :
                      t \in 1..Len(scan_threads) } :
        scan_threads[p[1]].chunk[p[2]] = path }

\* A step of the scan that changes a record is a step of a worker whose chunk
\* holds the record's path, and no other worker's chunk holds it.
ScanStepInOwnChunk ==
    (pc \in ScanPhase /\ pc' \in ScanPhase) =>
        \A path \in DOMAIN fastcov_json.sources :
            fastcov_json'.sources[path] # fastcov_json.sources[path] =>
                \E t \in 1..Len(scan_threads) :
                    /\ scan_threads'[t] # scan_threads[t]
                    /\ \E k \in 1..Len(scan_threads[t].chunk) :
                           scan_threads[t].chunk[k] = path
                    /\ \A u \in 1..Len(scan_threads) :
                           u # t => \A k \in 1..Len(scan_threads[u].chunk) :
                                        scan_threads[u].chunk[k] # path

\* C20: the chunks of the scanner workers partition the source paths of the
\* Report; every step that changes a record is a step of the one worker whose
\* chunk holds the record's path; and whatever the interleaving, the Report
\* after the scan is the one the workers leave when run one after the other.
C20_NoContention ==
    /\ [](pc \in {"join_scan", "dump", "done"} =>
              /\ \A path \in DOMAIN fastcov_json.sources : Cardinality(PlacesOf(path)) = 1
              /\ \A t \in 1..Len(scan_threads) :
                     \A k \in 1..Len(scan_threads[t].chunk) :
                         scan_threads[t].chunk[k] \in DOMAIN fastcov_json.sources)
    /\ [][ScanStepInOwnChunk]_vars
    /\ [](pc = "dump" => fastcov_json.sources = ScanOneByOne(sources_before, 1))

\* Two scanner workers with one source each, prefix lists configured: the
\* worker of the first source died on its first line, the other has removed a
\* branch entry of its own source.
C20_Witness ==
    /\ pc = "dump"
    /\ Len(scan_threads) = 2
    /\ \A t \in 1..2 : Len(scan_threads[t].chunk) = 1
    /\ scan_threads[1].status = "failed"
    /\ scan_threads[2].status = "done"
    /\ \A t \in 1..2 :
           fastcov_json.sources[scan_threads[t].chunk[1]]
               # sources_before[scan_threads[t].chunk[1]]


(***************************************************************************)
(* Specification SpecReport: the Report from distillReport (main, line     *)
(* 473) through the exclusion scan (line 477) with a single worker, one    *)
(* distillSource call or one source line per step.                         *)
(***************************************************************************)
MaxReportRecords == 2

MaxReportLines == 2

\* Line lists of the raw records: a plain pair, a line whose only pair is an
\* exception pair, and a line without branches; a line whose list the
\* initializer-noise suppression empties, and an exception pair before an
\* unpaired trailing branch.
ReportLineLists ==
    { << [line_number |-> 1, count |-> 1,
          branches |-> << Branch(1, FALSE), Branch(0, FALSE) >>],
         [line_number |-> 2, count |-> 1,
          branches |-> << Branch(0, FALSE), Branch(1, TRUE) >>],
         [line_number |-> 3, count |-> 0, branches |-> <<>>] >>,
      << [line_number |-> 1, count |-> 0,
          branches |-> << Branch(1, FALSE), Branch(1, FALSE),
                          Branch(0, FALSE), Branch(1, TRUE),
                          Branch(0, FALSE), Branch(0, FALSE) >>],
         [line_number |-> 2, count |-> 2,
          branches |-> << Branch(0, FALSE), Branch(0, TRUE), Branch(1, FALSE) >>] >> }

\* Raw records of the first source, and one of the second.
ReportRecords ==
    { rec \in [file_abs : SourcePaths, functions : { <<>> }, lines : ReportLineLists] :
        rec.file_abs = ScanChunk[2] => rec.lines[1].count = 1 }

InitReport ==
    /\ report_raw \in SeqsUpTo(ReportRecords, MaxReportRecords)
    /\ raw_before = report_raw
    /\ include_exceptional_branches \in BOOLEAN
    /\ report_json = EmptyDict
    /\ distill_i = 0
    /\ fastcov_sources = EmptyDict
    /\ sources_before = EmptyDict
    /\ \E text \in SeqsUpTo(SourceLineTexts, MaxReportLines) :
           source_text = [path \in SourcePaths |->
                             IF path = ScanChunk[1] THEN text ELSE SecondSourceText]
    /\ \/ include_branches_sw = <<>> /\ exclude_branches_sw = <<>>
       \/ include_branches_sw = << <<"i", "f">> >> /\ exclude_branches_sw = << <<"a", "s">> >>
    /\ chunk = <<>>
    /\ worker = [status |-> "idle", k |-> 0, i |-> 0, start_line |-> 0, end_line |-> 0]

\* main, lines 473 and 477, and scanExclusionMarkers, lines 266-269, with one
\* job: distillReport has returned and the Report is handed to one worker,
\* whose chunk is the list of its keys
ScanReport ==
    /\ worker.status = "idle"
    /\ distill_i = Len(report_raw)
    /\ fastcov_sources' = report_json
    /\ sources_before' = report_json
    /\ chunk' = SourceKeys(raw_before)
    /\ worker' = [worker EXCEPT !.status = "running"]
    /\ UNCHANGED <<source_text, exclude_branches_sw, include_branches_sw>>
    /\ UNCHANGED <<filterVars, distillVars, lineVars, dumpVars, mainVars>>

NextReport == DistillSource \/ ScanReport \/ OpenSource \/ ScanLine \/ WorkerReturn

InitSpecReport == InitReport /\ IdleFilter /\ IdleLine /\ IdleDump /\ IdleMain

SpecReport == InitSpecReport /\ [][NextReport]_vars

(***************************************************************************)
(* C21: branch entries and their lines.                                    *)
(***************************************************************************)
\* Every key of the branch map of a record is a key of its line map, and no
\* stored branch-count list is empty.
BranchesWithinLines(rec) ==
    /\ DOMAIN rec.branches \subseteq DOMAIN rec.lines
    /\ \A n \in DOMAIN rec.branches : Len(rec.branches[n]) >= 1

\* The worker is in the loop of line 228 for the source: it has opened it, has
\* lines of it left, and no exception has ended it.
InScan(path) ==
    /\ worker.status = "running"
    /\ worker.k >= 1
    /\ chunk[worker.k] = path
    /\ worker.i < Len(source_text[path])

\* C21: when distillation has completed, and again whenever the scanner worker
\* is not in the middle of a source (it has not reached it, has finished it,
\* or was ended by an exception in it), every line number that is a key of the
\* source's branch map is a key of its line map, and every stored branch-count
\* list is non-empty.
C21_BranchesWithinLines ==
    /\ distill_i = Len(report_raw) =>
           \A path \in DOMAIN report_json : BranchesWithinLines(report_json[path])
    /\ worker.status # "idle" =>
           \A path \in DOMAIN fastcov_sources :
               ~InScan(path) => BranchesWithinLines(fastcov_sources[path])

\* Distillation dropped the exception pair of line 2 and left that line without
\* a branch entry; the worker has finished, and a single-line exclusion on line
\* 1 has removed the line and its branch entry together.
C21_Witness ==
    /\ worker.status = "done"
    /\ ScanChunk[1] \in DOMAIN fastcov_sources
    /\ LET before == sources_before[ScanChunk[1]]
           after  == fastcov_sources[ScanChunk[1]]
       IN  /\ DOMAIN before.lines = {1, 2, 3}
           /\ DOMAIN before.branches = {1}
           /\ Len(source_text[ScanChunk[1]]) >= 1
           /\ IsSubstring(LCOV_EXCL_LINE, source_text[ScanChunk[1]][1])
           /\ DOMAIN after.lines = {2, 3}
           /\ after.branches = EmptyDict

\* The worker was ended by the KeyError of line 234 on a line whose branch
\* entry line 231 had removed; the line entry is still there.
C21_WitnessAborted ==
    /\ worker.status = "failed"
    /\ LET path == chunk[worker.k]
           i    == worker.i + 1
       IN  /\ i \in DOMAIN sources_before[path].branches
           /\ i \notin DOMAIN fastcov_sources[path].branches
           /\ i \in DOMAIN fastcov_sources[path].lines
           /\ fastcov_sources[path].branches # EmptyDict

\* Distillation of a line whose list the initializer-noise suppression emptied:
\* the line is counted and has no branch entry, while a range exclusion over
\* lines 1 to 2 removed the other branch entry with its line.
C21_WitnessSuppressed ==
    /\ worker.status = "done"
    /\ ~include_exceptional_branches
    /\ Len(raw_before) = 1
    /\ Len(raw_before[1].lines[1].branches) = 6
    /\ LET path == raw_before[1].file_abs
       IN  /\ DOMAIN sources_before[path].lines = {1, 2}
           /\ DOMAIN sources_before[path].branches = {2}
           /\ fastcov_sources[path].lines = EmptyDict
           /\ fastcov_sources[path].branches = EmptyDict


(***************************************************************************)
(* C22: the exclusion scan and the function maps.                          *)
(***************************************************************************)
\* The range [s, e] of a text: a start marker on line s, a stop marker on line
\* e, and no start marker between them.
RangeIn(text, s, e) ==
    /\ 1 <= s /\ s < e /\ e <= Len(text)
    /\ IsSubstring(LCOV_EXCL_START, text[s])
    /\ IsSubstring(LCOV_EXCL_STOP, text[e])
    /\ \A n \in (s + 1)..(e - 1) : ~IsSubstring(LCOV_EXCL, text[n])

\* C22: in every state of the scan, for every marker and every prefix
\* configuration, each source record has the function map it had before the
\* scan (the same names, start lines and execution counts), so the function
\* section dumpToLcovInfo writes for it is the one of the Report before the
\* scan, also when a function starts on an excluded line.
C22_FunctionsUnchanged ==
    /\ DOMAIN fastcov_sources = DOMAIN sources_before
    /\ \A path \in DOMAIN fastcov_sources :
           /\ fastcov_sources[path].functions = sources_before[path].functions
           /\ FunctionSection(fastcov_sources[path].functions)
                  = FunctionSection(sources_before[path].functions)

\* The worker has finished; function f of the first source starts on line 2,
\* inside the excluded range of lines 1 to 3, whose line and branch entries are
\* all gone, and is still in the function map with its start line and count.
C22_Witness ==
    /\ worker.status = "done"
    /\ LET path == chunk[1]
       IN  /\ RangeIn(source_text[path], 1, 3)
           /\ DOMAIN sources_before[path].lines = LineNumbers
           /\ DOMAIN sources_before[path].branches = LineNumbers
           /\ \A n \in 1..3 : /\ n \notin DOMAIN fastcov_sources[path].lines
                              /\ n \notin DOMAIN fastcov_sources[path].branches
           /\ fastcov_sources[path].functions[<<"f">>]
                  = [start_line |-> 2, execution_count |-> 1]

\* The same for a single-line exclusion on the line the function starts on.
C22_WitnessExcludedLine ==
    /\ worker.status = "done"
    /\ LET path == chunk[1]
       IN  /\ Len(source_text[path]) >= 2
           /\ IsSubstring(LCOV_EXCL_LINE, source_text[path][2])
           /\ 2 \in DOMAIN sources_before[path].lines
           /\ 2 \notin DOMAIN fastcov_sources[path].lines
           /\ fastcov_sources[path].functions[<<"f">>].start_line = 2

====
